---------------------------- MODULE Spec2Model ----------------------------
(***************************************************************************)
(* DrinkWise: the front end's drink page, preference comparison and the    *)
(* mock backend (src/frontend/src/mocks/handlers.js) it runs against.      *)
(*                                                                         *)
(* Units.  Scores the code computes as fractions (0.9 - idx * 0.1) are     *)
(* held in hundredths (90 - idx * 10); PreferenceComparison's scores are   *)
(* percentages in the code already.  Ratings are held in half stars (the   *)
(* rating input's step is 0.5), so 4.5 is 9.                               *)
(* An optional value (null, undefined, a missing key, an absent query      *)
(* parameter) is the empty sequence None; a present one is Some(v).        *)
(***************************************************************************)
EXTENDS Integers, Sequences, FiniteSets, TLC

VARIABLES
    userInteractions,   \* handlers.js: let userInteractions = { 101: {...} }
    dpId,               \* DrinkPage: useParams().id
    dpDrink,            \* DrinkPage: drink
    dpInteraction,      \* DrinkPage: interaction
    dpSimilar,          \* DrinkPage: similar
    dpLoading,          \* DrinkPage: loading
    dpErr,              \* DrinkPage: err
    putResponses,       \* DrinkPage: responses of PUT /user-drinks/:id not yet received
    resp,               \* the last response a client got from a recommendation endpoint
    pcUser,             \* PreferenceComparison: user (AuthContext)
    pcDrink,            \* PreferenceComparison: the drink prop
    pcPreferences,      \* PreferenceComparison: preferences
    pcLoading,          \* PreferenceComparison: loading
    pcError,            \* PreferenceComparison: error
    snapshot,           \* recommendation engine: the snapshot a session reads
    engOut,             \* recommendation engine: the last result returned
    user,               \* AuthContext: user
    authPending,        \* AuthContext: the login or logout request awaited
    storedUser,         \* localStorage: drinkwise_user
    authHeader,         \* axiosInstance.defaults.headers.common["Authorization"]
    mounted,            \* AuthContextProvider: its mount effect has run
    location,           \* the router's path
    now,                \* Date.now(), in the unit of a token's exp
    backendPf,          \* backend: the account's preference_finished
    tqStatus,           \* TasteQuizPage: handleQuizCompleted's position
    tqUser,             \* TasteQuizPage: the user fetchMe closed over
    lastRequest,        \* the last request the axios instance sent
    regForm,            \* RegisterPage: form
    validationErrors,   \* RegisterPage: validationErrors (the fields with an error)
    regError,           \* RegisterPage: error
    showQuiz,           \* RegisterPage: showQuiz
    regPayload,         \* the payload of the POST /auth/register awaited
    showForgotPassword, \* LoginPage: showForgotPassword
    fpStep,             \* ForgotPassword: step
    fpEmail,            \* ForgotPassword: email
    fpCode,             \* ForgotPassword: verificationCode
    fpNewPassword,      \* ForgotPassword: newPassword
    fpConfirmPassword,  \* ForgotPassword: confirmPassword
    fpLoading,          \* ForgotPassword: loading
    fpError,            \* ForgotPassword: error
    fpSuccess,          \* ForgotPassword: success
    fpAwait,            \* ForgotPassword: the request the modal awaits
    fpPayload,          \* the body of the last request the modal sent
    fpVerified,         \* the email whose reset request succeeded in this modal
    fpTimer,            \* the setTimeout(onClose, 2000) is armed
    rejected,           \* the request the interceptor rejected, when it rejected the last one
    tqfQuestions,       \* TasteQuizForm: questions
    tqfSelected,        \* TasteQuizForm: selected
    tqfLoading,         \* TasteQuizForm: loading
    tqfSubmitting,      \* TasteQuizForm: submitting
    tqfError,           \* TasteQuizForm: error
    tqfPosted,          \* the body of the last POST /quiz/submit
    searchParams,       \* SearchPage: the search_text of the URL's search params
    spDrinks,           \* SearchPage: drinks
    spPage,             \* SearchPage: page
    spTotalPages,       \* SearchPage: totalPages
    spLoading,          \* SearchPage: loading
    spError,            \* SearchPage: error
    spInFlight,         \* the GET /catalog/drinks requests not yet answered
    spIssued,           \* the number of GET /catalog/drinks requests issued
    spLatest,           \* the most recently issued request and its outcome
    ibrUser,            \* InteractionBasedRecommendations: user (from the context)
    ibrRecommendations, \* InteractionBasedRecommendations: recommendations
    ibrLoading,         \* InteractionBasedRecommendations: loading
    ibrError,           \* InteractionBasedRecommendations: error
    ibrInFlight,        \* the number of fetchData calls awaiting /catalog/similar-user
    ibrOutcome,         \* how the last fetchData ended
    ibrEscaped,         \* an exception escaped fetchData
    authLoading,        \* AuthContext: authLoading
    authError,          \* AuthContext: authError
    loginError,         \* LoginPage: error
    reloadPending       \* window.location.href was assigned, the page has not reloaded yet

dpVars == <<dpId, dpDrink, dpInteraction, dpSimilar, dpLoading, dpErr, putResponses>>
pcVars == <<pcUser, pcDrink, pcPreferences, pcLoading, pcError>>

engVars == <<snapshot, engOut>>

authVars == <<user, authPending, storedUser, authHeader, mounted, location, now,
              backendPf, tqStatus, tqUser, lastRequest>>

regVars == <<regForm, validationErrors, regError, showQuiz, regPayload>>

fpVars == <<showForgotPassword, fpStep, fpEmail, fpCode, fpNewPassword, fpConfirmPassword,
           fpLoading, fpError, fpSuccess, fpAwait, fpPayload, fpVerified, fpTimer>>

pageVars == <<regVars, fpVars>>

netVars == <<rejected>>

quizVars == <<tqfQuestions, tqfSelected, tqfLoading, tqfSubmitting, tqfError, tqfPosted>>

searchVars == <<searchParams, spDrinks, spPage, spTotalPages, spLoading, spError, spInFlight,
                spIssued, spLatest>>

ibrVars == <<ibrUser, ibrRecommendations, ibrLoading, ibrError, ibrInFlight, ibrOutcome, ibrEscaped>>

compVars == <<quizVars, searchVars, ibrVars>>

loadVars == <<authLoading, authError, loginError, reloadPending>>

moreVars == <<compVars, loadVars>>

uiVars == <<authVars, pageVars, netVars, moreVars>>

coreVars == <<userInteractions, dpVars, resp, pcVars, engVars>>

vars == <<coreVars, uiVars>>

\* What an action of one component leaves alone outside that component
outsideQuiz == <<coreVars, authVars, pageVars, netVars, searchVars, ibrVars,
                 loadVars>>

outsideSearch == <<coreVars, authVars, pageVars, netVars, quizVars, ibrVars,
                 loadVars>>

outsideIbr == <<coreVars, authVars, pageVars, netVars, quizVars, searchVars,
                 loadVars>>

None == <<>>
Some(v) == <<v>>

Min(a, b) == IF a <= b THEN a ELSE b
Max(a, b) == IF a >= b THEN a ELSE b

(***************************************************************************)
(* The mock backend's data.                                                *)
(***************************************************************************)
sampleUser == [user_id |-> 1, username |-> "demo_user", preference_finished |-> TRUE]

sampleDrinks ==
    << [drink_id |-> 101, category |-> "coffee", price_tier |-> "$$",
        sweetness_level |-> 6, caffeine_content |-> 180, sugar_content |-> 18,
        calorie_content |-> 160, is_alcoholic |-> FALSE, alcohol_content |-> 0,
        tags |-> {"cold", "sweet", "coffee"}],
       [drink_id |-> 102, category |-> "tea", price_tier |-> "$$",
        sweetness_level |-> 4, caffeine_content |-> 75, sugar_content |-> 8,
        calorie_content |-> 120, is_alcoholic |-> FALSE, alcohol_content |-> 0,
        tags |-> {"warm", "tea", "oat"}],
       [drink_id |-> 103, category |-> "mocktail", price_tier |-> "$",
        sweetness_level |-> 5, caffeine_content |-> 0, sugar_content |-> 12,
        calorie_content |-> 90, is_alcoholic |-> FALSE, alcohol_content |-> 0,
        tags |-> {"sparkling", "fruit", "mocktail"}] >>

\* The ids a route or a request names: two catalog drinks, one of them with a
\* stored interaction, and an id the catalog does not hold.
RouteIds == {101, 102, 999}

\* The values of the "limit" query parameter a client sends (None: no parameter).
LimitParams == {None, Some(2)}

RecommendationTypes == {"hybrid", "collaborative", "content"}

\* The ids of a list of drinks
DrinkIdsOf(drinks) == {drinks[i].drink_id : i \in 1..Len(drinks)}

\* Array.prototype.slice(0, end)
SliceFromZero(s, end) ==
    LET stop == IF end < 0 THEN Max(Len(s) + end, 0) ELSE Min(end, Len(s))
    IN  SubSeq(s, 1, stop)

\* Array.prototype.filter
Filter(s, Keep(_)) == SelectSeq(s, Keep)

\* Number(url.searchParams.get("limit") || dflt)
LimitOf(limitParam, dflt) == IF limitParam = None THEN dflt ELSE limitParam[1]

(***************************************************************************)
(* Handlers of the mock backend.                                           *)
(***************************************************************************)
\* GET */catalog/drinks/:id  (None: the 404 response)
CatalogDrink(id) ==
    LET found == Filter(sampleDrinks, LAMBDA d : d.drink_id = id)
    IN  IF found = <<>> THEN None ELSE Some(Head(found))

\* GET */recommendations/drinks : the drink_id parameter is not read
RecommendationsDrinks(drink_id, limitParam) ==
    LET similar == SliceFromZero(sampleDrinks, LimitOf(limitParam, 6))
    IN  [similar_drinks |-> similar, count |-> Len(similar)]

\* GET */recommendations/similar/:id
RecommendationsSimilar(id) ==
    LET similar == Filter(sampleDrinks, LAMBDA d : d.drink_id # id)
    IN  [drink_id |-> id, similar_drinks |-> similar, count |-> Len(similar)]

\* Mutant: the step of 0.1 per index lost (0.9 - idx)
ScoreOfIndexUnscaled(i) == 90 - (i - 1) * 100

\* Mutant: the score grows with the index (0.7 + idx * 0.1)
ScoreOfIndexAscending(i) == 70 + (i - 1) * 10

\* score: 0.9 - idx * 0.1, in hundredths (idx is 0-based, i is 1-based)
ScoreOfIndex(i) == 90 - (i - 1) * 10

\* GET */recommendations/users : no query parameter is read
RecommendationsUsers(limitParam, recommendation_type) ==
    [recommendations |->
        [i \in 1..Len(sampleDrinks) |->
            [drink |-> sampleDrinks[i], score |-> ScoreOfIndex(i),
             recommendation_type |-> "hybrid"]]]

\* GET */user-drinks/:id  (None: the 204 response with a null body)
GetUserDrink(ui, id) == ui[id]

\* The record PUT starts from when none is stored
NewInteraction(id) ==
    [user_id |-> sampleUser.user_id, drink_id |-> id, times_consumed |-> 0,
     is_favorite |-> FALSE, rating |-> 0, is_not_for_me |-> FALSE,
     viewed_at |-> "timestamp", last_consumed |-> "null"]

\* Mutant: the spread operands swapped ({ ...patch, ...existing })
OverlayExistingWins(existing, patch) ==
    [f \in DOMAIN existing \cup DOMAIN patch \cup {"last_consumed"} |->
        IF f = "last_consumed" THEN "timestamp"
        ELSE IF f \in DOMAIN existing THEN existing[f] ELSE patch[f]]

\* { ...existing, ...patch, last_consumed: new Date().toISOString() }
Overlay(existing, patch) ==
    [f \in DOMAIN existing \cup DOMAIN patch \cup {"last_consumed"} |->
        IF f = "last_consumed" THEN "timestamp"
        ELSE IF f \in DOMAIN patch THEN patch[f] ELSE existing[f]]

\* PUT */user-drinks/:id : the record stored and returned
PutUserDrink(ui, id, patch) ==
    LET existing == IF ui[id] # None THEN ui[id][1] ELSE NewInteraction(id)
    IN  Overlay(existing, patch)

(***************************************************************************)
(* DrinkPage (src/pages/DrinkPage.jsx).                                    *)
(***************************************************************************)
\* The greatest times_consumed the model lets "I made this" reach.
MaxConsumed == 3

\* The values typed into the rating input, in half stars.
RatingInputs == {0, 9}

\* The route changes to /drink/:id : the effect starts load()
DrinkPageOpen(id) ==
    /\ id # dpId \/ dpId = 0
    /\ dpId' = id
    /\ dpLoading' = TRUE
    /\ dpErr' = FALSE
    /\ UNCHANGED <<userInteractions, dpDrink, dpInteraction, dpSimilar, putResponses, resp,
                   pcVars, engVars, uiVars>>

\* load(): the three responses arrive; a rejected catalog or recommendation
\* request sets err and leaves drink, interaction and similar as they were
DrinkPageLoaded ==
    /\ dpLoading
    /\ LET drinkRes == CatalogDrink(dpId)
           interRes == GetUserDrink(userInteractions, dpId)
           simRes   == RecommendationsDrinks(dpId, Some(6))
       IN  IF drinkRes = None
           THEN /\ dpErr' = TRUE
                /\ UNCHANGED <<dpDrink, dpInteraction, dpSimilar>>
           ELSE /\ dpDrink' = drinkRes
                /\ dpInteraction' = interRes
                /\ dpSimilar' = simRes.similar_drinks
                /\ dpErr' = FALSE
    /\ dpLoading' = FALSE
    /\ UNCHANGED <<userInteractions, dpId, putResponses, resp, pcVars, engVars, uiVars>>

\* The page renders its controls only past the loading and error returns
ControlsRendered == ~dpLoading /\ ~dpErr /\ dpDrink # None

timesConsumed == IF dpInteraction = None THEN 0 ELSE dpInteraction[1].times_consumed
rating == IF dpInteraction = None THEN 0 ELSE dpInteraction[1].rating
isFavorite == IF dpInteraction = None THEN FALSE ELSE dpInteraction[1].is_favorite
isNotForMe == IF dpInteraction = None THEN FALSE ELSE dpInteraction[1].is_not_for_me

\* The most PUT responses the model lets be outstanding at once.
MaxInFlight == 1

\* updateInteraction(patch) up to its await: the PUT is sent and the backend
\* stores and returns the updated record; the response is outstanding
updateInteraction(patch) ==
    LET updated == PutUserDrink(userInteractions, dpId, patch)
    IN  /\ Cardinality(putResponses) < MaxInFlight
        /\ userInteractions' = [userInteractions EXCEPT ![dpId] = Some(updated)]
        /\ putResponses' = putResponses \cup {updated}
        /\ UNCHANGED <<dpId, dpDrink, dpInteraction, dpSimilar, dpLoading, dpErr, resp,
                       pcVars, engVars, uiVars>>

\* updateInteraction past its await: setInteraction(response.data), whatever
\* the page shows by then
PutResponse(r) ==
    /\ r \in putResponses
    /\ dpInteraction' = Some(r)
    /\ putResponses' = putResponses \ {r}
    /\ UNCHANGED <<userInteractions, dpId, dpDrink, dpSimilar, dpLoading, dpErr, resp,
                   pcVars, engVars, uiVars>>

ClickFavorite ==
    /\ ControlsRendered
    /\ updateInteraction([is_favorite |-> ~isFavorite])

ClickMadeThis ==
    /\ ControlsRendered
    /\ timesConsumed < MaxConsumed
    /\ updateInteraction([times_consumed |-> timesConsumed + 1])

ChangeRating(v) ==
    /\ ControlsRendered
    /\ updateInteraction([rating |-> v])

ClickNotForMe ==
    /\ ControlsRendered
    /\ updateInteraction([is_not_for_me |-> ~isNotForMe])

(***************************************************************************)
(* A client of the recommendation endpoints.                               *)
(***************************************************************************)
RequestRecommendationsDrinks(drink_id, limitParam) ==
    /\ resp' = [endpoint |-> "recommendations/drinks", drink_id |-> drink_id,
                limit |-> limitParam, recommendation_type |-> "",
                body |-> RecommendationsDrinks(drink_id, limitParam)]
    /\ UNCHANGED <<userInteractions, dpVars, pcVars, engVars, uiVars>>

RequestRecommendationsSimilar(id) ==
    /\ resp' = [endpoint |-> "recommendations/similar", drink_id |-> id,
                limit |-> None, recommendation_type |-> "",
                body |-> RecommendationsSimilar(id)]
    /\ UNCHANGED <<userInteractions, dpVars, pcVars, engVars, uiVars>>

RequestRecommendationsUsers(limitParam, recommendation_type) ==
    /\ resp' = [endpoint |-> "recommendations/users", drink_id |-> 0,
                limit |-> limitParam, recommendation_type |-> recommendation_type,
                body |-> RecommendationsUsers(limitParam, recommendation_type)]
    /\ UNCHANGED <<userInteractions, dpVars, pcVars, engVars, uiVars>>

\* The bodies of the PUT /user-drinks/:id requests a client sends
PutPatches ==
    {[is_favorite |-> FALSE], [is_not_for_me |-> TRUE], [times_consumed |-> 3],
     [rating |-> 7, is_favorite |-> TRUE]}

\* A client's GET /user-drinks/:id
RequestGetUserDrink(id) ==
    /\ resp' = [endpoint |-> "GET user-drinks", drink_id |-> id,
                limit |-> None, recommendation_type |-> "",
                body |-> GetUserDrink(userInteractions, id)]
    /\ UNCHANGED <<userInteractions, dpVars, pcVars, engVars, uiVars>>

\* A client's PUT /user-drinks/:id with the body patch
RequestPutUserDrink(id, patch) ==
    LET updated == PutUserDrink(userInteractions, id, patch)
    IN  /\ userInteractions' = [userInteractions EXCEPT ![id] = Some(updated)]
        /\ resp' = [endpoint |-> "PUT user-drinks", drink_id |-> id,
                    limit |-> None, recommendation_type |-> "",
                    patch |-> patch, body |-> Some(updated)]
        /\ UNCHANGED <<dpVars, pcVars, engVars, uiVars>>

NoResponse ==
    [endpoint |-> "", drink_id |-> 0, limit |-> None, recommendation_type |-> "",
     body |-> [count |-> 0]]

(***************************************************************************)
(* PreferenceComparison (src/components/PreferenceComparison.jsx).         *)
(***************************************************************************)
PriceTiers == {"$", "$$", "$$$"}

\* The drink prop: the three fields the component reads.
DrinkInputs ==
    [sweetness_level : {1, 4, 6, 9, 10},
     caffeine_content : {0, 180, 200, 201, 300, 400},
     price_tier : PriceTiers]

\* The body of a successful GET /preferences: a record (its caffeine_limit
\* nullable) or null.  The mock backend answers {6, 200, "$$"}.
PreferenceRecords ==
    [sweetness_preference : {1, 6, 10},
     caffeine_limit : {None, Some(0), Some(100), Some(200)},
     preferred_price_tier : PriceTiers]

PreferenceResponses == {None} \cup {Some(p) : p \in PreferenceRecords}

Abs(x) == IF x < 0 THEN -x ELSE x

\* ToNumber of a nullable number, as the <= comparison coerces it: null is 0
ToNumber(opt) == IF opt = None THEN 0 ELSE opt[1]

\* Math.round(sum / 3): the nearest integer, a half rounding up
RoundThird(sum) == (2 * sum + 3) \div 6

\* Mutant: the difference taken over the normalized scale (value - 1) / 9
sweetnessMatchNinths(drink, preferences) ==
    Max(0, 100 - (Abs(drink.sweetness_level - preferences.sweetness_preference) * 100) \div 9)

sweetnessMatch(drink, preferences) ==
    Max(0, 100 - Abs(drink.sweetness_level - preferences.sweetness_preference) * 10)

\* Mutant: the comparison with the limit inverted
caffeineMatchInverted(drink, preferences) ==
    IF drink.caffeine_content >= ToNumber(preferences.caffeine_limit) THEN 100 ELSE 0

\* Mutant: the limit itself counted as exceeding
caffeineMatchStrict(drink, preferences) ==
    IF drink.caffeine_content < ToNumber(preferences.caffeine_limit) THEN 100 ELSE 0

caffeineMatch(drink, preferences) ==
    IF drink.caffeine_content <= ToNumber(preferences.caffeine_limit) THEN 100 ELSE 0

priceMatch(drink, preferences) ==
    IF drink.price_tier = preferences.preferred_price_tier THEN 100 ELSE 50

overallMatch(drink, preferences) ==
    RoundThird(sweetnessMatch(drink, preferences) + caffeineMatch(drink, preferences)
               + priceMatch(drink, preferences))

\* Which of the component's returns renders
pcView ==
    IF pcUser = None THEN "login"
    ELSE IF pcLoading THEN "loading"
    ELSE IF pcError THEN "error"
    ELSE IF pcPreferences = None THEN "no-preferences"
    ELSE "scores"

\* fetchPreferences() without a user
FetchPreferencesNoUser ==
    /\ pcLoading
    /\ pcUser = None
    /\ pcLoading' = FALSE
    /\ UNCHANGED <<userInteractions, dpVars, resp, pcUser, pcDrink, pcPreferences, pcError, engVars, uiVars>>

\* fetchPreferences(): the GET succeeds with body r
FetchPreferencesOk(r) ==
    /\ pcLoading
    /\ pcUser # None
    /\ pcPreferences' = r
    /\ pcLoading' = FALSE
    /\ UNCHANGED <<userInteractions, dpVars, resp, pcUser, pcDrink, pcError, engVars, uiVars>>

\* fetchPreferences(): the GET is rejected
FetchPreferencesFailed ==
    /\ pcLoading
    /\ pcUser # None
    /\ pcError' = TRUE
    /\ pcLoading' = FALSE
    /\ UNCHANGED <<userInteractions, dpVars, resp, pcUser, pcDrink, pcPreferences, engVars, uiVars>>

(***************************************************************************)
(* The session: AuthContext (src/context/AuthContext.jsx), the axios       *)
(* instance's request interceptor (src/utils/axiosHelper.js), the routes   *)
(* of App (src/App.jsx) and the taste quiz page (src/pages/TasteQuiz.jsx). *)
(* The backend that answers is not among the sources: every request it     *)
(* answers may succeed or fail.                                            *)
(***************************************************************************)
\* The access tokens: two JWTs with exp 1 and 2, a JWT whose payload has no
\* exp, and the mock's "demo-token", which is no JWT
Tokens == {"tokA", "tokB", "tokNoExp", "demo-token"}

\* The largest value of the clock
MaxNow == 2

\* token.split('.').length
TokenParts(token) == IF token = "demo-token" THEN 1 ELSE 3

\* decodeJWT(token): the payload of a three-part token, None for null
decodeJWT(token) ==
    IF TokenParts(token) # 3 THEN None
    ELSE CASE token = "tokA" -> Some([exp |-> Some(1)])
           [] token = "tokB" -> Some([exp |-> Some(2)])
           [] OTHER -> Some([exp |-> None])

\* Mutant: a token without a readable exp taken as valid
isTokenExpiredLenient(token, time) ==
    LET decoded == decodeJWT(token)
    IN  IF decoded = None \/ decoded[1].exp = None THEN FALSE
        ELSE time >= decoded[1].exp[1]

\* isTokenExpired(token) at Date.now() = time
isTokenExpired(token, time) ==
    LET decoded == decodeJWT(token)
    IN  IF decoded = None \/ decoded[1].exp = None THEN TRUE
        ELSE time >= decoded[1].exp[1]

\* The UserResponse bodies of the backend (access_token is optional)
UserResponses ==
    [username : {"demo_user"}, access_token : {None} \cup {Some(t) : t \in Tokens},
     preference_finished : BOOLEAN]

Paths == {"/", "/login", "/register", "/taste-quiz", "/search", "/drink/101", "/account",
          "/nowhere"}

\* A value of localStorage's drinkwise_user that JSON.parse rejects
Corrupt == <<[username |-> "", access_token |-> None, preference_finished |-> FALSE],
            "not JSON">>

\* Mutant: every stored value taken to parse
ParsesAlways(stored) == TRUE

\* JSON.parse(stored) does not throw
Parses(stored) == Len(stored) = 1

HasToken(u) == u # None /\ u[1].access_token # None

\* Mutant: the component whoever asks
PrivateRouteOpen(Component, u) == Component

\* PrivateRoute(Component)
PrivateRoute(Component, u) == IF u # None THEN Component ELSE "/login"

\* Mutant: a user who has not finished the quiz sent to "/"
PreferenceRouteAway(Component, u) == IF u = None THEN "/login" ELSE "/"

\* PreferenceRoute(Component)
PreferenceRoute(Component, u) ==
    IF u = None THEN "/login"
    ELSE IF u[1].preference_finished THEN "/"
    ELSE Component

\* Mutant: the "/" route without its preference_finished check
RouteElementNoQuiz(path, u) ==
    CASE path = "/" -> (IF u # None THEN "LandingPage" ELSE "/login")
      [] path \in {"/login", "/register"} ->
            (IF u = None THEN (IF path = "/login" THEN "LoginPage" ELSE "RegisterPage")
             ELSE IF u[1].preference_finished THEN "/" ELSE "/taste-quiz")
      [] path = "/taste-quiz" -> PreferenceRoute("TasteQuizPage", u)
      [] path = "/search" -> PrivateRoute("SearchPage", u)
      [] path = "/drink/101" -> PrivateRoute("DrinkPage", u)
      [] path = "/account" -> PrivateRoute("AccountPage", u)
      [] OTHER -> "/"

\* The element of the route matching path: a page, or the path a <Navigate>
\* leads to
RouteElement(path, u) ==
    CASE path = "/" ->
            (IF u # None
             THEN (IF u[1].preference_finished THEN "LandingPage" ELSE "/taste-quiz")
             ELSE "/login")
      [] path = "/login" ->
            (IF u = None THEN "LoginPage"
             ELSE IF u[1].preference_finished THEN "/" ELSE "/taste-quiz")
      [] path = "/register" ->
            (IF u = None THEN "RegisterPage"
             ELSE IF u[1].preference_finished THEN "/" ELSE "/taste-quiz")
      [] path = "/taste-quiz" -> PreferenceRoute("TasteQuizPage", u)
      [] path = "/search" -> PrivateRoute("SearchPage", u)
      [] path = "/drink/101" -> PrivateRoute("DrinkPage", u)
      [] path = "/account" -> PrivateRoute("AccountPage", u)
      [] OTHER -> "/"

\* The page the router ends on from path, its <Navigate> elements followed
RECURSIVE ResolveIn(_, _, _)
ResolveIn(path, u, fuel) ==
    LET e == RouteElement(path, u)
    IN  IF e \notin Paths \/ fuel = 0 THEN e ELSE ResolveIn(e, u, fuel - 1)

Resolve(path, u) == ResolveIn(path, u, Cardinality(Paths))

NoRequest == [n |-> 0, endpoint |-> "", auth |-> None]

\* The request interceptor finds the stored user's token expired and rejects
\* the request
TokenExpired == HasToken(storedUser) /\ isTokenExpired(storedUser[1].access_token[1], now)

\* The Authorization header the request interceptor leaves on a request it
\* lets through: the instance's default when there is one, else the stored
\* user's token (None: no header)
InterceptAuth ==
    IF HasToken(storedUser) /\ authHeader = None THEN storedUser[1].access_token
    ELSE authHeader

\* The request is sent with the header the interceptor leaves on it
Sent(endpoint) ==
    /\ lastRequest' = [n |-> 1 - lastRequest.n, endpoint |-> endpoint, auth |-> InterceptAuth]
    /\ rejected' = ""

\* window.location.href = "/login" after the stored user and the header are
\* removed: the application starts over on the login page
ForcedLogout ==
    /\ storedUser' = None
    /\ authHeader' = None
    /\ user' = None
    /\ authPending' = "none"
    /\ location' = "/login"
    /\ tqStatus' = "idle"
    /\ tqUser' = None
    /\ authLoading' = FALSE
    /\ authError' = None
    /\ loginError' = ""
    /\ reloadPending' = FALSE

\* The request interceptor rejects a request with "Token expired"
Rejected(endpoint) ==
    /\ ForcedLogout
    /\ rejected' = endpoint
    /\ UNCHANGED lastRequest

\* Mutant: the default header set only while there is none
saveUserKeepsHeader(data) ==
    /\ user' = Some(data)
    /\ storedUser' = Some(data)
    /\ authHeader' = IF authHeader # None THEN authHeader ELSE data.access_token

\* saveUser(data)
saveUser(data) ==
    /\ user' = Some(data)
    /\ storedUser' = Some(data)
    /\ authHeader' = IF data.access_token # None THEN data.access_token ELSE authHeader

\* { ...u, ...data } of a user and a response body whose access_token may be absent
Merge(u, data) ==
    [username |-> data.username,
     access_token |-> IF data.access_token # None THEN data.access_token ELSE u.access_token,
     preference_finished |-> data.preference_finished]

\* AuthContextProvider's mount effect: the stored user is loaded unless it
\* does not parse or its token is expired
AppMount ==
    /\ ~reloadPending
    /\ ~mounted
    /\ mounted' = TRUE
    /\ IF storedUser = None THEN UNCHANGED <<user, storedUser, authHeader>>
       ELSE IF ~Parses(storedUser)
       THEN /\ storedUser' = None
            /\ UNCHANGED <<user, authHeader>>
       ELSE IF HasToken(storedUser) /\ isTokenExpired(storedUser[1].access_token[1], now)
       THEN /\ storedUser' = None
            /\ user' = None
            /\ UNCHANGED authHeader
       ELSE saveUser(storedUser[1])
    /\ UNCHANGED <<coreVars, moreVars, netVars, pageVars, authPending, location, now, backendPf, tqStatus, tqUser,
                   lastRequest>>

\* Time passes
Tick ==
    /\ now < MaxNow
    /\ now' = now + 1
    /\ UNCHANGED <<coreVars, moreVars, netVars, pageVars, user, authPending, storedUser, authHeader, mounted, location,
                   backendPf, tqStatus, tqUser, lastRequest>>

\* The address bar or a link leads to path
GoTo(path) ==
    /\ ~reloadPending
    /\ mounted
    /\ location' = path
    /\ UNCHANGED <<coreVars, moreVars, netVars, pageVars, user, authPending, storedUser, authHeader, mounted, now,
                   backendPf, tqStatus, tqUser, lastRequest>>

\* A rendered <Navigate to=... replace />
Redirect ==
    /\ ~reloadPending
    /\ RouteElement(location, user) \in Paths
    /\ location' = RouteElement(location, user)
    /\ UNCHANGED <<coreVars, moreVars, netVars, pageVars, user, authPending, storedUser, authHeader, mounted, now,
                   backendPf, tqStatus, tqUser, lastRequest>>

\* LoginPage handleSubmit up to loginUser's await
LoginSubmit ==
    /\ mounted
    /\ RouteElement(location, user) = "LoginPage"
    /\ authPending = "none"
    /\ ~authLoading
    /\ ~reloadPending
    /\ IF TokenExpired
       THEN Rejected("POST /auth/login")
       ELSE /\ authLoading' = TRUE
            /\ authError' = None
            /\ loginError' = ""
            /\ UNCHANGED reloadPending
            /\ Sent("POST /auth/login")
            /\ authPending' = "login"
            /\ UNCHANGED <<user, storedUser, authHeader, location, tqStatus, tqUser>>
    /\ UNCHANGED <<coreVars, compVars, pageVars, mounted, now, backendPf>>

\* loginUser past its await, the request answered with data: saveUser(data),
\* then handleSubmit's navigate("/")
LoginOk(data) ==
    /\ ~reloadPending
    /\ authPending = "login"
    /\ saveUser(data)
    /\ authPending' = "none"
    /\ backendPf' = data.preference_finished
    /\ location' = "/"
    /\ authLoading' = FALSE
    /\ UNCHANGED <<coreVars, compVars, netVars, pageVars, mounted, now, tqStatus, tqUser,
                   lastRequest, authError, loginError, reloadPending>>

\* The statuses POST /auth/login fails with (401: invalid credentials)
LoginFailureStatuses == {400, 401, 500}

\* A failed request past the response interceptor: a 401 removes the stored
\* user and the default header and assigns window.location.href
Intercepted(status) ==
    IF status = 401
    THEN /\ storedUser' = None
         /\ authHeader' = None
         /\ reloadPending' = TRUE
    ELSE UNCHANGED <<storedUser, authHeader, reloadPending>>

\* loginUser's catch and finally, then handleSubmit's catch
LoginFailed(status) ==
    /\ ~reloadPending
    /\ authPending = "login"
    /\ authPending' = "none"
    /\ Intercepted(status)
    /\ authError' = Some("Login failed")
    /\ authLoading' = FALSE
    /\ loginError' = "Invalid username or password."
    /\ UNCHANGED <<coreVars, compVars, netVars, pageVars, user, mounted, location, now,
                   backendPf, tqStatus, tqUser, lastRequest>>

\* The page reloads on /login after window.location.href was assigned; it is
\* the next thing that happens
Reload ==
    /\ reloadPending
    /\ ForcedLogout
    /\ mounted' = FALSE
    /\ UNCHANGED <<coreVars, compVars, netVars, pageVars, now, backendPf, lastRequest>>

\* logoutUser up to its await (the navigation bar shows while a user is set)
LogoutStart ==
    /\ ~reloadPending
    /\ user # None
    /\ authPending = "none"
    /\ IF TokenExpired
       THEN Rejected("POST /auth/logout")
       ELSE /\ UNCHANGED loadVars
            /\ Sent("POST /auth/logout")
            /\ authPending' = "logout"
            /\ UNCHANGED <<user, storedUser, authHeader, location, tqStatus, tqUser>>
    /\ UNCHANGED <<coreVars, compVars, pageVars, mounted, now, backendPf>>

\* Mutant: the default Authorization header left in place
LogoutDoneKeepsHeader ==
    /\ ~reloadPending
    /\ authPending = "logout"
    /\ authPending' = "none"
    /\ storedUser' = None
    /\ user' = None
    /\ UNCHANGED <<coreVars, moreVars, netVars, pageVars, authHeader, mounted, location, now, backendPf, tqStatus,
                   tqUser, lastRequest>>

\* logoutUser past its await, whether the request succeeded or not
LogoutDone ==
    /\ ~reloadPending
    /\ authPending = "logout"
    /\ authPending' = "none"
    /\ storedUser' = None
    /\ user' = None
    /\ authHeader' = None
    /\ UNCHANGED <<coreVars, moreVars, netVars, pageVars, mounted, location, now, backendPf, tqStatus, tqUser,
                   lastRequest>>

\* A page's request to the backend (the account page's GET /auth/statistics)
PageRequest ==
    /\ ~reloadPending
    /\ mounted
    /\ user # None
    /\ IF TokenExpired
       THEN Rejected("GET /auth/statistics")
       ELSE /\ UNCHANGED loadVars
            /\ Sent("GET /auth/statistics")
            /\ UNCHANGED <<user, authPending, storedUser, authHeader, location, tqStatus,
                           tqUser>>
    /\ UNCHANGED <<coreVars, compVars, pageVars, mounted, now, backendPf>>

\* The response interceptor on a 401 answer
ResponseUnauthorized ==
    /\ ~reloadPending
    /\ lastRequest # NoRequest
    /\ user # None
    /\ ForcedLogout
    /\ UNCHANGED <<coreVars, compVars, netVars, pageVars, mounted, now, backendPf, lastRequest>>

\* TasteQuizPage handleQuizCompleted up to its first await: PUT /auth/me
\* {preference_finished: true}.  (The page's loading flag only delays the form.)
QuizCompleted ==
    /\ ~reloadPending
    /\ mounted
    /\ RouteElement(location, user) = "TasteQuizPage"
    /\ tqStatus \in {"idle", "done"}
    /\ IF TokenExpired
       THEN Rejected("PUT /auth/me")
       ELSE /\ UNCHANGED loadVars
            /\ Sent("PUT /auth/me")
            /\ tqStatus' = "put"
            /\ tqUser' = user
            /\ UNCHANGED <<user, authPending, storedUser, authHeader, location>>
    /\ UNCHANGED <<coreVars, compVars, pageVars, mounted, now, backendPf>>

\* The PUT succeeded (the endpoint is protected: the request carried a token,
\* so that fetchMe's early return for a user without one is not taken):
\* fetchMe() up to its await.  A GET sent without a token can only fail.
PutMeOk ==
    /\ ~reloadPending
    /\ tqStatus = "put"
    /\ HasToken(tqUser)
    /\ backendPf' = TRUE
    /\ IF TokenExpired
       THEN Rejected("GET /auth/me")
       ELSE /\ UNCHANGED loadVars
            /\ Sent("GET /auth/me")
            /\ tqStatus' = IF InterceptAuth # None THEN "fetch" ELSE "fetch unauthorized"
            /\ UNCHANGED <<user, authPending, storedUser, authHeader, location, tqUser>>
    /\ UNCHANGED <<coreVars, compVars, pageVars, mounted, now>>

\* The PUT failed: handleQuizCompleted's catch (a 401 also runs the response
\* interceptor)
PutMeFailed(unauthorized) ==
    /\ ~reloadPending
    /\ tqStatus = "put"
    /\ IF unauthorized
       THEN ForcedLogout
       ELSE /\ UNCHANGED loadVars
            /\ tqStatus' = "failed"
            /\ tqUser' = None
            /\ UNCHANGED <<user, authPending, storedUser, authHeader, location>>
    /\ UNCHANGED <<coreVars, compVars, netVars, pageVars, mounted, now, backendPf, lastRequest>>

\* fetchMe past its await, answered with the account (its token in the body
\* or not): saveUser({ ...user, ...data }), then navigate("/")
FetchMeOk(token) ==
    /\ ~reloadPending
    /\ tqStatus = "fetch"
    /\ saveUser(Merge(tqUser[1], [username |-> tqUser[1].username, access_token |-> token,
                                  preference_finished |-> backendPf]))
    /\ location' = "/"
    /\ tqStatus' = "done"
    /\ tqUser' = None
    /\ UNCHANGED <<coreVars, moreVars, netVars, pageVars, authPending, mounted, now, backendPf, lastRequest>>

\* fetchMe's catch returns null; handleQuizCompleted goes on to navigate("/")
FetchMeFailed(unauthorized) ==
    /\ ~reloadPending
    /\ tqStatus \in {"fetch", "fetch unauthorized"}
    /\ tqStatus = "fetch unauthorized" => unauthorized
    /\ IF unauthorized
       THEN ForcedLogout
       ELSE /\ UNCHANGED loadVars
            /\ location' = "/"
            /\ tqStatus' = "done"
            /\ tqUser' = None
            /\ UNCHANGED <<user, authPending, storedUser, authHeader>>
    /\ UNCHANGED <<coreVars, compVars, netVars, pageVars, mounted, now, backendPf, lastRequest>>

\* The error screen's "Try Again": window.location.reload()
TryAgain ==
    /\ ~reloadPending
    /\ tqStatus = "failed"
    /\ RouteElement(location, user) = "TasteQuizPage"
    /\ tqStatus' = "idle"
    /\ user' = None
    /\ authHeader' = None
    /\ authPending' = "none"
    /\ mounted' = FALSE
    /\ UNCHANGED <<coreVars, compVars, netVars, pageVars, storedUser, location, now, backendPf, tqUser, lastRequest>>
    /\ authLoading' = FALSE
    /\ authError' = None
    /\ loginError' = ""
    /\ reloadPending' = FALSE

(***************************************************************************)
(* The registration page (src/pages/Register.jsx, the revision with        *)
(* validateForm).  A string is the sequence of its characters; a date is   *)
(* <<year, month, day>>, the empty string of the date input NoDate.        *)
(***************************************************************************)
Whitespace == {" "}
UpperCase == {"A"}
LowerCase == {"a", "b", "x"}
Digits == {"1"}
\* Of /[!@#$%^&*()_+\-=\[\]{};':"\\|,.<>\/?]/ the characters used here
SpecialChars == {"!", "@", "."}

NoDate == <<>>

RECURSIVE Repeat(_, _)
Repeat(c, n) == IF n = 0 THEN <<>> ELSE <<c>> \o Repeat(c, n - 1)

MinUsernameLength == 3
MaxUsernameLength == 50
MinPasswordLength == 8
MinAge == 13

\* What new Date() gives while the page is used
Today == <<2025, 6, 15>>

\* s.trim() is the empty string
TrimIsEmpty(s) == \A i \in 1..Len(s) : s[i] \in Whitespace

\* Mutant: no dot asked of the part after the @
EmailRegexTestNoDot(e) ==
    \E i \in 1..Len(e) :
        /\ e[i] = "@"
        /\ 1 < i
        /\ i < Len(e)
        /\ \A k \in (1..Len(e)) \ {i} : e[k] \notin ({"@"} \cup Whitespace)

\* /^[^@\s]+@[^@\s]+\.[^@\s]+$/.test(e)
EmailRegexTest(e) ==
    \E i \in 1..Len(e) : \E j \in 1..Len(e) :
        /\ e[i] = "@"
        /\ e[j] = "."
        /\ 1 < i
        /\ i + 1 < j
        /\ j < Len(e)
        /\ \A k \in (1..Len(e)) \ {i} : e[k] \notin ({"@"} \cup Whitespace)

HasCharIn(s, class) == \E i \in 1..Len(s) : s[i] \in class

\* a > b for dates
DateAfter(a, b) ==
    \/ a[1] > b[1]
    \/ a[1] = b[1] /\ a[2] > b[2]
    \/ a[1] = b[1] /\ a[2] = b[2] /\ a[3] > b[3]

\* validateForm(): the keys of errors
validateForm(f) ==
    LET usernameError ==
            \/ TrimIsEmpty(f.username)
            \/ Len(f.username) < MinUsernameLength
            \/ Len(f.username) > MaxUsernameLength
        emailError ==
            \/ TrimIsEmpty(f.email)
            \/ ~EmailRegexTest(f.email)
        passwordError ==
            \/ f.password = <<>>
            \/ Len(f.password) < MinPasswordLength
            \/ ~HasCharIn(f.password, UpperCase)
            \/ ~HasCharIn(f.password, LowerCase)
            \/ ~HasCharIn(f.password, Digits)
            \/ ~HasCharIn(f.password, SpecialChars)
        confirmError == f.password # f.confirmpassword
        minAgeDate == <<Today[1] - MinAge, Today[2], Today[3]>>
        dobError ==
            /\ f.date_of_birth # NoDate
            /\ DateAfter(f.date_of_birth, minAgeDate)
    IN  {k \in {"username", "email", "password", "confirmpassword", "date_of_birth"} :
            \/ k = "username" /\ usernameError
            \/ k = "email" /\ emailError
            \/ k = "password" /\ passwordError
            \/ k = "confirmpassword" /\ confirmError
            \/ k = "date_of_birth" /\ dobError}

\* new Date(form.date_of_birth).toISOString(): midnight UTC of the day
toISOString(date) == [date |-> date, time |-> "T00:00:00.000Z"]

\* The payload handleRegisterSubmit builds
RegisterPayload(f) ==
    [username |-> f.username, email |-> f.email, password |-> f.password,
     confirmpassword |-> f.confirmpassword,
     date_of_birth |-> IF f.date_of_birth # NoDate THEN Some(toISOString(f.date_of_birth))
                       ELSE None]

\* What is typed into the form's fields
Usernames ==
    {<<>>, Repeat(" ", MinUsernameLength), Repeat("a", MinUsernameLength - 1),
     Repeat("a", MinUsernameLength), Repeat("a", MaxUsernameLength),
     Repeat("a", MaxUsernameLength + 1)}

Emails ==
    {<<>>, <<"a", "@", "b", ".", "x">>, <<"a", "@", "b">>, <<"a", "@", "@", "b", ".", "x">>,
     <<"a", " ", "@", "b", ".", "x">>}

Passwords ==
    {<<"A", "a", "1", "!">> \o Repeat("x", MinPasswordLength - 5),
     <<"A", "a", "1", "!">> \o Repeat("x", MinPasswordLength - 4),
     <<"A", "a", "1", "!">> \o Repeat("b", MinPasswordLength - 4),
     <<"a", "1", "!">> \o Repeat("x", MinPasswordLength)}

ConfirmPasswords ==
    {<<"A", "a", "1", "!">> \o Repeat("x", MinPasswordLength - 4),
     <<"A", "a", "1", "!">> \o Repeat("b", MinPasswordLength - 4)}

BirthDates == {NoDate, <<2000, 1, 1>>, <<2020, 1, 1>>}

FieldValues(name) ==
    CASE name = "username" -> Usernames
      [] name = "email" -> Emails
      [] name = "password" -> Passwords
      [] name = "confirmpassword" -> ConfirmPasswords
      [] OTHER -> BirthDates

\* The registration form is on the screen
RegisterFormShown ==
    mounted /\ RouteElement(location, user) = "RegisterPage" /\ ~showQuiz

\* handleChange
HandleChange(name, value) ==
    /\ RegisterFormShown
    /\ regForm' = [regForm EXCEPT ![name] = value]
    /\ UNCHANGED <<coreVars, moreVars, netVars, fpVars, authVars, validationErrors, regError, showQuiz, regPayload>>

\* handleRegisterSubmit up to the await of registerUser (the submit button is
\* disabled while authLoading; nothing is stored while the form is shown, so
\* the request interceptor lets the request through)
RegisterSubmit ==
    /\ RegisterFormShown
    /\ authPending = "none"
    /\ ~authLoading
    /\ ~reloadPending
    /\ regError' = ""
    /\ validationErrors' = validateForm(regForm)
    /\ IF validateForm(regForm) # {}
       THEN UNCHANGED <<authVars, regPayload, authLoading, authError>>
       ELSE /\ Sent("POST /auth/register")
            /\ authLoading' = TRUE
            /\ authError' = None
            /\ regPayload' = Some(RegisterPayload(regForm))
            /\ authPending' = "register"
            /\ UNCHANGED <<user, storedUser, authHeader, mounted, location, now,
                           backendPf, tqStatus, tqUser>>
    /\ UNCHANGED <<coreVars, compVars, netVars, fpVars, regForm, showQuiz>>
    /\ UNCHANGED <<loginError, reloadPending>>

\* registerUser: the backend created the account; setShowQuiz(true)
RegisterOk(data) ==
    /\ authPending = "register"
    /\ saveUser(data)
    /\ authPending' = "none"
    /\ backendPf' = data.preference_finished
    /\ showQuiz' = TRUE
    /\ regPayload' = None
    /\ UNCHANGED <<coreVars, compVars, netVars, fpVars, mounted, location, now, tqStatus, tqUser, lastRequest,
                   regForm, validationErrors, regError>>
    /\ authLoading' = FALSE
    /\ UNCHANGED <<authError, loginError, reloadPending>>

\* registerUser: the request failed
RegisterFailed ==
    /\ authPending = "register"
    /\ authPending' = "none"
    /\ regError' = "Registration failed."
    /\ regPayload' = None
    /\ UNCHANGED <<coreVars, compVars, netVars, fpVars, user, storedUser, authHeader, mounted, location, now,
                   backendPf, tqStatus, tqUser, lastRequest, regForm, validationErrors,
                   showQuiz>>
    /\ authLoading' = FALSE
    /\ authError' = Some("Registration failed")
    /\ UNCHANGED <<loginError, reloadPending>>

\* The registration page is opened (again): its state starts over
RegisterPageOpen ==
    /\ mounted
    /\ user = None
    /\ authPending = "none"
    /\ location # "/register"
    /\ location' = "/register"
    /\ regForm' = [username |-> <<>>, email |-> <<>>, password |-> <<>>,
                   confirmpassword |-> <<>>, date_of_birth |-> NoDate]
    /\ validationErrors' = {}
    /\ regError' = ""
    /\ showQuiz' = FALSE
    /\ regPayload' = None
    /\ UNCHANGED <<coreVars, moreVars, netVars, fpVars, user, authPending, storedUser, authHeader, mounted, now,
                   backendPf, tqStatus, tqUser, lastRequest>>

(***************************************************************************)
(* The forgot-password modal of the login page                             *)
(* (src/components/ForgotPassword.jsx).  The inputs are "required": a form *)
(* with an empty field is not submitted.  The responses of a modal that    *)
(* was closed are lost with it.                                            *)
(***************************************************************************)
FpEmails == {"a@x.io", "b@x.io"}
FpCodes == {"123456"}
FpPasswords == {"Passw0rd!", "Passw1rd!"}

\* All of the session but the last request
sessionVars == <<user, authPending, storedUser, authHeader, mounted, location, now,
                 backendPf, tqStatus, tqUser>>

\* Mutant: the early return of handlePasswordReset never taken
passwordsDifferNever(new, confirm) == FALSE

\* newPassword !== confirmPassword
passwordsDiffer(new, confirm) == new # confirm

\* LoginPage: "Forgot password?" mounts the modal
ForgotPasswordOpen ==
    /\ mounted
    /\ RouteElement(location, user) = "LoginPage"
    /\ ~showForgotPassword
    /\ showForgotPassword' = TRUE
    /\ fpStep' = 1
    /\ fpEmail' = ""
    /\ fpCode' = ""
    /\ fpNewPassword' = ""
    /\ fpConfirmPassword' = ""
    /\ fpLoading' = FALSE
    /\ fpError' = ""
    /\ fpSuccess' = ""
    /\ fpAwait' = "none"
    /\ fpVerified' = None
    /\ UNCHANGED <<coreVars, moreVars, netVars, regVars, sessionVars, lastRequest, fpPayload, fpTimer>>

\* onClose(): the modal is unmounted
ModalClosed ==
    /\ showForgotPassword' = FALSE
    /\ fpAwait' = "none"
    /\ UNCHANGED <<fpStep, fpEmail, fpCode, fpNewPassword, fpConfirmPassword, fpLoading,
                   fpError, fpSuccess, fpPayload, fpVerified>>

\* The close button (disabled while loading)
ForgotPasswordClose ==
    /\ showForgotPassword
    /\ ~fpLoading
    /\ ModalClosed
    /\ UNCHANGED <<coreVars, moreVars, netVars, regVars, sessionVars, lastRequest, fpTimer>>

\* The timer set after a successful reset calls onClose()
ForgotPasswordTimer ==
    /\ fpTimer
    /\ fpTimer' = FALSE
    /\ ModalClosed
    /\ UNCHANGED <<coreVars, moreVars, netVars, regVars, sessionVars, lastRequest>>

\* The email input (step 1, disabled while loading)
SetEmail(value) ==
    /\ showForgotPassword
    /\ fpStep = 1
    /\ ~fpLoading
    /\ fpEmail' = value
    /\ UNCHANGED <<coreVars, moreVars, netVars, regVars, sessionVars, lastRequest, showForgotPassword, fpStep,
                   fpCode, fpNewPassword, fpConfirmPassword, fpLoading, fpError, fpSuccess,
                   fpAwait, fpPayload, fpVerified, fpTimer>>

\* The inputs of the reset form (step 2, disabled while loading)
SetResetField(name, value) ==
    /\ showForgotPassword
    /\ fpStep = 2
    /\ ~fpLoading
    /\ fpCode' = IF name = "verificationCode" THEN value ELSE fpCode
    /\ fpNewPassword' = IF name = "newPassword" THEN value ELSE fpNewPassword
    /\ fpConfirmPassword' = IF name = "confirmPassword" THEN value ELSE fpConfirmPassword
    /\ UNCHANGED <<coreVars, moreVars, netVars, regVars, sessionVars, lastRequest, showForgotPassword, fpStep,
                   fpEmail, fpLoading, fpError, fpSuccess, fpAwait, fpPayload, fpVerified,
                   fpTimer>>

\* handleRequestReset up to its await
HandleRequestReset ==
    /\ showForgotPassword
    /\ fpStep = 1
    /\ ~fpLoading
    /\ fpEmail # ""
    /\ fpLoading' = TRUE
    /\ fpError' = ""
    /\ fpSuccess' = ""
    /\ Sent("POST /auth/request-password-reset")
    /\ fpPayload' = Some([email |-> fpEmail])
    /\ fpAwait' = "request"
    /\ UNCHANGED <<coreVars, moreVars, netVars, regVars, sessionVars, showForgotPassword, fpStep, fpEmail, fpCode,
                   fpNewPassword, fpConfirmPassword, fpVerified, fpTimer>>

\* handleRequestReset: the request succeeded
RequestResetOk ==
    /\ fpAwait = "request"
    /\ fpSuccess' = "If the email exists, a password reset link has been sent."
    /\ fpStep' = 2
    /\ fpLoading' = FALSE
    /\ fpAwait' = "none"
    /\ fpVerified' = Some(fpPayload[1].email)
    /\ UNCHANGED <<coreVars, moreVars, netVars, regVars, sessionVars, lastRequest, showForgotPassword, fpEmail,
                   fpCode, fpNewPassword, fpConfirmPassword, fpError, fpPayload, fpTimer>>

\* handleRequestReset: the request failed
RequestResetFailed ==
    /\ fpAwait = "request"
    /\ fpError' = "Failed to request password reset."
    /\ fpLoading' = FALSE
    /\ fpAwait' = "none"
    /\ UNCHANGED <<coreVars, moreVars, netVars, regVars, sessionVars, lastRequest, showForgotPassword, fpStep,
                   fpEmail, fpCode, fpNewPassword, fpConfirmPassword, fpSuccess, fpPayload,
                   fpVerified, fpTimer>>

\* handlePasswordReset up to its await, or to its early return
HandlePasswordReset ==
    /\ showForgotPassword
    /\ fpStep = 2
    /\ ~fpLoading
    /\ fpCode # "" /\ fpNewPassword # "" /\ fpConfirmPassword # ""
    /\ fpSuccess' = ""
    /\ IF passwordsDiffer(fpNewPassword, fpConfirmPassword)
       THEN /\ fpError' = "Passwords do not match."
            /\ fpLoading' = FALSE
            /\ UNCHANGED <<lastRequest, fpPayload, fpAwait>>
       ELSE /\ fpError' = ""
            /\ fpLoading' = TRUE
            /\ Sent("POST /auth/forgot-password")
            /\ fpPayload' = Some([email |-> fpEmail, verification_code |-> fpCode,
                                  new_password |-> fpNewPassword,
                                  confirm_password |-> fpConfirmPassword])
            /\ fpAwait' = "reset"
    /\ UNCHANGED <<coreVars, moreVars, netVars, regVars, sessionVars, showForgotPassword, fpStep, fpEmail, fpCode,
                   fpNewPassword, fpConfirmPassword, fpVerified, fpTimer>>

\* handlePasswordReset: the request succeeded
PasswordResetOk ==
    /\ fpAwait = "reset"
    /\ fpSuccess' = "Password reset successfully! You can now login with your new password."
    /\ fpTimer' = TRUE
    /\ fpLoading' = FALSE
    /\ fpAwait' = "none"
    /\ UNCHANGED <<coreVars, moreVars, netVars, regVars, sessionVars, lastRequest, showForgotPassword, fpStep,
                   fpEmail, fpCode, fpNewPassword, fpConfirmPassword, fpError, fpPayload,
                   fpVerified>>

\* handlePasswordReset: the request failed
PasswordResetFailed ==
    /\ fpAwait = "reset"
    /\ fpError' = "Failed to reset password."
    /\ fpLoading' = FALSE
    /\ fpAwait' = "none"
    /\ UNCHANGED <<coreVars, moreVars, netVars, regVars, sessionVars, lastRequest, showForgotPassword, fpStep,
                   fpEmail, fpCode, fpNewPassword, fpConfirmPassword, fpSuccess, fpPayload,
                   fpVerified, fpTimer>>

\* "Back to email entry" (step 2, disabled while loading)
BackToEmailEntry ==
    /\ showForgotPassword
    /\ fpStep = 2
    /\ ~fpLoading
    /\ fpStep' = 1
    /\ UNCHANGED <<coreVars, moreVars, netVars, regVars, sessionVars, lastRequest, showForgotPassword, fpEmail,
                   fpCode, fpNewPassword, fpConfirmPassword, fpLoading, fpError, fpSuccess,
                   fpAwait, fpPayload, fpVerified, fpTimer>>

(***************************************************************************)
(* The taste quiz form (src/components/TasteQuizForm.jsx).                 *)
(***************************************************************************)
QuestionIds == {1, 2}
OptionIds == {0, 1, 2}

\* The bodies GET /quiz/provide answers with: data.questions
QuestionLists ==
    {<<>>,
     <<[question_id |-> 1, options |-> {0, 1}]>>,
     <<[question_id |-> 1, options |-> {1, 2}], [question_id |-> 2, options |-> {0, 2}]>>,
     <<[question_id |-> 2, options |-> OptionIds], [question_id |-> 1, options |-> OptionIds]>>}

NoSelection == [q \in QuestionIds |-> None]

NothingPosted == [n |-> 0, answers |-> <<>>]

AnswerAllMessage == "Please answer all questions before submitting."

\* !selected[q.question_id]: nothing selected, or a selected 0
NotSelected(sel, q) == sel[q.question_id] = None \/ sel[q.question_id] = Some(0)

\* questions.filter((q) => !selected[q.question_id])
unanswered(qs, sel) == SelectSeq(qs, LAMBDA q : NotSelected(sel, q))

\* questions.map((q) => ({question_id, option_id: selected[q.question_id]}))
answers(qs, sel) ==
    [i \in 1..Len(qs) |->
        [question_id |-> qs[i].question_id, option_id |-> sel[qs[i].question_id]]]

\* fetchQuestions: GET /quiz/provide answered
QuestionsLoaded(qs) ==
    /\ tqfLoading
    /\ tqfQuestions' = qs
    /\ tqfLoading' = FALSE
    /\ UNCHANGED <<outsideQuiz, tqfSelected, tqfSubmitting, tqfError,
                   tqfPosted>>

\* fetchQuestions: the request failed
QuestionsFailed ==
    /\ tqfLoading
    /\ tqfError' = "Failed to load taste quiz questions."
    /\ tqfLoading' = FALSE
    /\ UNCHANGED <<outsideQuiz, tqfQuestions, tqfSelected,
                   tqfSubmitting, tqfPosted>>

\* The form is on the screen
QuizFormShown == ~tqfLoading /\ ~(tqfError # "" /\ tqfQuestions = <<>>)

\* handleSelect(questionId, optionId): a radio button of a question
HandleSelect(i, optionId) ==
    /\ QuizFormShown
    /\ i \in 1..Len(tqfQuestions)
    /\ optionId \in tqfQuestions[i].options
    /\ tqfSelected' = [tqfSelected EXCEPT ![tqfQuestions[i].question_id] = Some(optionId)]
    /\ UNCHANGED <<outsideQuiz, tqfQuestions, tqfLoading,
                   tqfSubmitting, tqfError, tqfPosted>>

\* handleSubmit up to its await (the button is disabled while submitting)
HandleSubmit ==
    /\ QuizFormShown
    /\ ~tqfSubmitting
    /\ IF tqfQuestions = <<>>
       THEN /\ tqfError' = ""
            /\ UNCHANGED <<tqfSubmitting, tqfPosted>>
       ELSE IF Len(unanswered(tqfQuestions, tqfSelected)) > 0
       THEN /\ tqfError' = AnswerAllMessage
            /\ UNCHANGED <<tqfSubmitting, tqfPosted>>
       ELSE /\ tqfError' = ""
            /\ tqfSubmitting' = TRUE
            /\ tqfPosted' = [n |-> 1 - tqfPosted.n,
                             answers |-> answers(tqfQuestions, tqfSelected)]
    /\ UNCHANGED <<outsideQuiz, tqfQuestions, tqfSelected, tqfLoading>>

\* handleSubmit past its await: the answers were accepted, onCompleted is called
QuizSubmitOk ==
    /\ tqfSubmitting
    /\ tqfSubmitting' = FALSE
    /\ UNCHANGED <<outsideQuiz, tqfQuestions, tqfSelected, tqfLoading,
                   tqfError, tqfPosted>>

\* handleSubmit's catch
QuizSubmitFailed ==
    /\ tqfSubmitting
    /\ tqfError' = "Failed to submit taste quiz."
    /\ tqfSubmitting' = FALSE
    /\ UNCHANGED <<outsideQuiz, tqfQuestions, tqfSelected, tqfLoading,
                   tqfPosted>>

(***************************************************************************)
(* The search page (src/pages/Search.jsx).  The landing page's list        *)
(* (src/pages/Landing.jsx) has the same fetchDrinks and handlePageChange,  *)
(* with the text of its search box in place of the URL's search params.    *)
(***************************************************************************)
MaxSearchRequests == 3

SearchTexts == {"", "tea"}

\* The pages of drinks the catalog holds for a search text
CatalogPages(searchText) ==
    IF searchText = "" THEN <<<<101, 102>>, <<103>>>> ELSE <<<<102>>>>

\* The body GET /catalog/drinks answers a request with
CatalogResponse(request) ==
    LET pages == CatalogPages(request.search_text)
    IN  [drinks |-> IF request.page <= Len(pages) THEN pages[request.page] ELSE <<>>,
         page |-> request.page,
         total_pages |-> Len(pages)]

SearchRequests == [id : 1..MaxSearchRequests, search_text : SearchTexts, page : 1..2]

NoSearchRequest == [id |-> 0, search_text |-> "", page |-> 0]

\* fetchDrinks(pageArg) up to its await
fetchDrinks(pageArg, searchText) ==
    LET request == [id |-> spIssued + 1, search_text |-> searchText, page |-> pageArg]
    IN  /\ spIssued < MaxSearchRequests
        /\ spLoading' = TRUE
        /\ spError' = ""
        /\ spInFlight' = spInFlight \cup {request}
        /\ spIssued' = spIssued + 1
        /\ spLatest' = [request |-> request, outcome |-> "pending"]

\* The effect on searchParams: the page mounts, or the URL's params change
SearchParamsEffect(searchText) ==
    /\ spIssued = 0 \/ searchText # searchParams
    /\ searchParams' = searchText
    /\ fetchDrinks(1, searchText)
    /\ UNCHANGED <<outsideSearch, spDrinks, spPage, spTotalPages>>

\* handlePageChange(newPage): a button of the pagination
handlePageChange(newPage) ==
    /\ spIssued > 0
    /\ spTotalPages > 1
    /\ newPage \in 1..spTotalPages
    /\ fetchDrinks(newPage, searchParams)
    /\ UNCHANGED <<outsideSearch, searchParams, spDrinks, spPage, spTotalPages>>

\* fetchDrinks past its await: the request was answered
DrinksLoaded(request) ==
    /\ request \in spInFlight
    /\ LET data == CatalogResponse(request)
       IN  /\ spDrinks' = data.drinks
           /\ spPage' = data.page
           /\ spTotalPages' = IF data.total_pages = 0 THEN 1 ELSE data.total_pages
    /\ spLoading' = FALSE
    /\ spInFlight' = spInFlight \ {request}
    /\ spLatest' = IF request = spLatest.request THEN [spLatest EXCEPT !.outcome = "ok"] ELSE spLatest
    /\ UNCHANGED <<outsideSearch, searchParams, spError, spIssued>>

\* fetchDrinks past its await: the request failed
DrinksFailed(request) ==
    /\ request \in spInFlight
    /\ spError' = "Failed to load search results."
    /\ spLoading' = FALSE
    /\ spInFlight' = spInFlight \ {request}
    /\ spLatest' = IF request = spLatest.request
                 THEN [spLatest EXCEPT !.outcome = "failed"] ELSE spLatest
    /\ UNCHANGED <<outsideSearch, searchParams, spDrinks, spPage, spTotalPages, spIssued>>

(***************************************************************************)
(* InteractionBasedRecommendations                                         *)
(* (src/components/InteractionBasedRecommendations.jsx).                   *)
(***************************************************************************)
MaxIbrInFlight == 2

IbrUsers == {None, Some("maya"), Some("noor")}

\* The statuses /catalog/similar-user fails with (0: no response at all)
FailureStatuses == {0, 404, 500}

\* response.data.similar_drinks
SimilarDrinks == {<<>>, <<201>>, <<201, 202>>, <<203>>}

IbrErrorMessage == "Failed to load ibrRecommendations based on your interactions."

\* The effect on user: fetchData up to its await
FetchData(u) ==
    /\ ibrOutcome = "unmounted" \/ u # ibrUser
    /\ ibrUser' = u
    /\ IF u = None
       THEN /\ ibrLoading' = FALSE
            /\ ibrOutcome' = "no user"
            /\ UNCHANGED <<ibrError, ibrInFlight>>
       ELSE /\ ibrInFlight < MaxIbrInFlight
            /\ ibrLoading' = TRUE
            /\ ibrError' = ""
            /\ ibrInFlight' = ibrInFlight + 1
            /\ ibrOutcome' = "pending"
    /\ UNCHANGED <<outsideIbr, ibrRecommendations, ibrEscaped>>

\* fetchData past its await: the request was answered
SimilarLoaded(similar) ==
    /\ ibrInFlight > 0
    /\ ibrRecommendations' = similar
    /\ ibrLoading' = FALSE
    /\ ibrInFlight' = ibrInFlight - 1
    /\ ibrOutcome' = "ok"
    /\ UNCHANGED <<outsideIbr, ibrUser, ibrError, ibrEscaped>>

\* fetchData's catch and finally: the request failed.  The catch reads
\* response, a const of the try block that is not in scope in the catch:
\* evaluating response?.status throws a ReferenceError before setError, the
\* finally runs and the ReferenceError leaves fetchData.
SimilarFailed(status) ==
    /\ ibrInFlight > 0
    /\ ibrEscaped' = TRUE
    /\ ibrLoading' = FALSE
    /\ ibrInFlight' = ibrInFlight - 1
    /\ ibrOutcome' = IF status = 404 THEN "not found" ELSE "failed"
    /\ UNCHANGED <<outsideIbr, ibrUser, ibrRecommendations, ibrError>>

(***************************************************************************)
(* The recommendation engine.  Its code (the backend) is not among the     *)
(* sources; this part follows the design the specification gives for it    *)
(* (sections 3 to 5).  Scores are in hundredths, divisions round down.     *)
(***************************************************************************)
\* The catalog the engine is given: the sample drinks and an alcoholic one.
EngineDrinks ==
    sampleDrinks \o
    << [drink_id |-> 104, category |-> "cocktail", price_tier |-> "$$$",
        sweetness_level |-> 9, caffeine_content |-> 0, sugar_content |-> 18,
        calorie_content |-> 210, is_alcoholic |-> TRUE, alcohol_content |-> 12,
        tags |-> {"cold", "sweet"}] >>

EngineDrinkIds == DrinkIdsOf(EngineDrinks)
DrinkById(id) == CHOOSE d \in {EngineDrinks[i] : i \in 1..Len(EngineDrinks)} : d.drink_id = id

EngineUsers == {1, 2, 3}

\* Sum of fn over the finite set S
RECURSIVE SumFn(_, _)
SumFn(fn, S) ==
    IF S = {} THEN 0
    ELSE LET x == CHOOSE y \in S : TRUE IN fn[x] + SumFn(fn, S \ {x})

\* The least r in lo..hi with r * r >= n
RECURSIVE SqrtCeilIn(_, _, _)
SqrtCeilIn(n, lo, hi) ==
    IF lo >= hi THEN lo
    ELSE LET mid == (lo + hi) \div 2
         IN  IF mid * mid >= n THEN SqrtCeilIn(n, lo, mid) ELSE SqrtCeilIn(n, mid + 1, hi)

SqrtCeil(n) == SqrtCeilIn(n, 0, 46340)

(* 4.1 Feature Vector Builder                                              *)
TierCode(t) == CASE t = "$" -> 0 [] t = "$$" -> 50 [] OTHER -> 100

\* Min-max against the observed catalog range, clipped; one distinct value: 0.5
MinMax(v, field) ==
    LET vals == {EngineDrinks[i][field] : i \in 1..Len(EngineDrinks)}
        lo == CHOOSE a \in vals : \A b \in vals : a <= b
        hi == CHOOSE a \in vals : \A b \in vals : a >= b
    IN  IF lo = hi THEN 50 ELSE Max(0, Min(100, ((v - lo) * 100) \div (hi - lo)))

NumericDims == {"sweetness", "caffeine", "sugar", "calories", "price", "alcohol"}

build(drink) ==
    [numeric |->
        [dim \in NumericDims |->
            CASE dim = "sweetness" -> ((drink.sweetness_level - 1) * 100) \div 9
              [] dim = "caffeine"  -> MinMax(drink.caffeine_content, "caffeine_content")
              [] dim = "sugar"     -> MinMax(drink.sugar_content, "sugar_content")
              [] dim = "calories"  -> MinMax(drink.calorie_content, "calorie_content")
              [] dim = "price"     -> TierCode(drink.price_tier)
              [] OTHER             -> drink.alcohol_content],
     labels |-> {drink.category} \cup drink.tags]

(* 4.2 Content Similarity Engine                                           *)
\* The numeric dimensions are held in tenths here, so that the products stay
\* within 32 bits.
Tenths(vec) == [dim \in NumericDims |-> vec.numeric[dim] \div 10]

weightedCosine(vectorA, vectorB) ==
    LET a == Tenths(vectorA)
        b == Tenths(vectorB)
        dot == SumFn([dim \in NumericDims |-> a[dim] * b[dim]], NumericDims)
        na2 == SumFn([dim \in NumericDims |-> a[dim] * a[dim]], NumericDims)
        nb2 == SumFn([dim \in NumericDims |-> b[dim] * b[dim]], NumericDims)
    IN  IF na2 = 0 \/ nb2 = 0 THEN 0 ELSE (dot * 100) \div SqrtCeil(na2 * nb2)

jaccard(vectorA, vectorB) ==
    LET union == vectorA.labels \cup vectorB.labels
    IN  IF union = {} THEN 0
        ELSE (Cardinality(vectorA.labels \cap vectorB.labels) * 100) \div Cardinality(union)

\* Mutant: the cosine normalised by the first vector's length only
similarityOneSided(vectorA, vectorB) ==
    LET a == Tenths(vectorA)
        b == Tenths(vectorB)
        dot == SumFn([dim \in NumericDims |-> a[dim] * b[dim]], NumericDims)
        na2 == SumFn([dim \in NumericDims |-> a[dim] * a[dim]], NumericDims)
    IN  (70 * (IF na2 = 0 THEN 0 ELSE Min(100, (dot * 100) \div na2))
           + 30 * jaccard(vectorA, vectorB)) \div 100

\* 0.7 * weightedCosine + 0.3 * jaccard
similarity(vectorA, vectorB) ==
    (70 * weightedCosine(vectorA, vectorB) + 30 * jaccard(vectorA, vectorB)) \div 100

\* A limit dimension: 1.0 up to the limit, then max(0, 1 - (value - limit)/limit)
limitScore(value, limit) ==
    IF value <= limit THEN 100
    ELSE IF limit = 0 THEN 0
    ELSE Max(0, 100 - ((value - limit) * 100) \div limit)

\* A bounded dimension: 1 - |userPref - drinkValue| in normalized space
boundedScore(prefNorm, drinkNorm) == 100 - Abs(prefNorm - drinkNorm)

\* The per-dimension scores of the dimensions the preference sets (the drink
\* record has no bitterness, so that dimension is never computed)
dimensionScores(pref, drink) ==
    << boundedScore(((pref.sweetness_preference - 1) * 100) \div 9,
                    ((drink.sweetness_level - 1) * 100) \div 9),
       boundedScore(TierCode(pref.preferred_price_tier), TierCode(drink.price_tier)) >>
    \o (IF pref.sugar_limit = None THEN <<>>
        ELSE <<limitScore(drink.sugar_content, pref.sugar_limit[1])>>)
    \o (IF pref.caffeine_limit = None THEN <<>>
        ELSE <<limitScore(drink.caffeine_content, pref.caffeine_limit[1])>>)
    \o (IF pref.calorie_limit = None THEN <<>>
        ELSE <<limitScore(drink.calorie_content, pref.calorie_limit[1])>>)

\* The neutral score of a user without a preference record
NeutralScore == 50

matchScore(preference, drink) ==
    IF preference = None THEN NeutralScore
    ELSE LET scores == dimensionScores(preference[1], drink)
         IN  SumFn(scores, DOMAIN scores) \div Len(scores)

(* 4.3 Interaction Matrix                                                  *)
affinity(i) ==
    IF i.is_not_for_me THEN 0
    ELSE Max(0, Min(100, (IF i.is_favorite THEN 50 ELSE 0)
                         + 3 * Min(10, i.rating)
                         + 4 * Min(5, i.times_consumed)))

\* Sparse: a drink without an interaction is absent from the user's row
buildMatrix(interactions) ==
    [u \in EngineUsers |->
        [d \in {e \in EngineDrinkIds : interactions[u][e] # None} |->
            affinity(interactions[u][d][1])]]

(* 4.4 Collaborative Filtering Engine                                      *)
\* Cosine over the shared drinks; None when no drink is shared
userSimilarity(matrix, u, v) ==
    LET shared == DOMAIN matrix[u] \cap DOMAIN matrix[v]
        dot == SumFn([d \in shared |-> matrix[u][d] * matrix[v][d]], shared)
        nu2 == SumFn([d \in shared |-> matrix[u][d] * matrix[u][d]], shared)
        nv2 == SumFn([d \in shared |-> matrix[v][d] * matrix[v][d]], shared)
    IN  IF shared = {} THEN None
        ELSE IF nu2 = 0 \/ nv2 = 0 THEN Some(0)
        ELSE Some((dot * 100) \div SqrtCeil(nu2 * nv2))

DefaultK == 20
MinSimilarity == 0

\* The top-K users of similarity above the minimum, ties by ascending user id
neighbors(matrix, u, K) ==
    LET eligible == {v \in EngineUsers \ {u} :
                        /\ userSimilarity(matrix, u, v) # None
                        /\ userSimilarity(matrix, u, v)[1] > MinSimilarity}
        sim(v) == userSimilarity(matrix, u, v)[1]
        all == SelectSeq([i \in 1..Cardinality(EngineUsers) |-> i], LAMBDA v : v \in eligible)
        ranked == SortSeq(all, LAMBDA v, w : sim(v) > sim(w) \/ (sim(v) = sim(w) /\ v < w))
    IN  SubSeq(ranked, 1, Min(K, Len(ranked)))

\* The neighbours' affinities for the drink, averaged with their similarities
\* as weights; 0 when no neighbour has an affinity for it
collaborativeScore(matrix, u, nbrs, d) ==
    LET having == {i \in DOMAIN nbrs : d \in DOMAIN matrix[nbrs[i]]}
        w(i) == userSimilarity(matrix, u, nbrs[i])[1]
        total == SumFn([i \in having |-> w(i)], having)
    IN  IF having = {} \/ total = 0 THEN 0
        ELSE SumFn([i \in having |-> w(i) * matrix[nbrs[i]][d]], having) \div total

(* 4.5 Hybrid Ranker                                                       *)
DefaultLimit == 10

\* Mutant: the hybrid blend applied even without a neighbour
overallAlwaysBlended(mode, content, collab, hasNeighbors, hasPreference) ==
    CASE mode = "content" -> content
      [] mode = "collaborative" -> collab
      [] OTHER -> (50 * content + 50 * collab) \div 100

overall(mode, content, collab, hasNeighbors, hasPreference) ==
    CASE mode = "content" -> content
      [] mode = "collaborative" -> collab
      [] OTHER -> IF hasNeighbors /\ hasPreference
                  THEN (50 * content + 50 * collab) \div 100
                  ELSE content

recommend(snap, u, mode, limitParam) ==
    LET matrix == buildMatrix(snap.interactions)
        nbrs == neighbors(matrix, u, snap.K)
        excluded(d) ==
            \/ snap.interactions[u][d.drink_id] # None
                 /\ snap.interactions[u][d.drink_id][1].is_not_for_me
            \/ d.is_alcoholic /\ ~snap.ageVerified
        candidates == SelectSeq(EngineDrinks, LAMBDA d : ~excluded(d))
        scored == [i \in 1..Len(candidates) |->
                     [drink_id |-> candidates[i].drink_id,
                      score |-> overall(mode,
                                        matchScore(snap.preference, candidates[i]),
                                        collaborativeScore(matrix, u, nbrs,
                                                           candidates[i].drink_id),
                                        nbrs # <<>>, snap.preference # None)]]
        ranked == SortSeq(scored, LAMBDA a, b :
                     a.score > b.score \/ (a.score = b.score /\ a.drink_id < b.drink_id))
    IN  IF mode = "collaborative" /\ nbrs = <<>> THEN <<>>
        ELSE SliceFromZero(ranked, LimitOf(limitParam, DefaultLimit))

\* The interaction rows and preference records a snapshot may hold
RowChoices ==
    {None,
     Some([times_consumed |-> 1, is_favorite |-> TRUE, rating |-> 8, is_not_for_me |-> FALSE]),
     Some([times_consumed |-> 0, is_favorite |-> FALSE, rating |-> 0, is_not_for_me |-> TRUE])}

FixedRow ==
    [d \in EngineDrinkIds |->
        CASE d = 101 -> Some([times_consumed |-> 2, is_favorite |-> TRUE, rating |-> 9,
                              is_not_for_me |-> FALSE])
          [] d = 103 -> Some([times_consumed |-> 5, is_favorite |-> FALSE, rating |-> 6,
                              is_not_for_me |-> FALSE])
          [] OTHER -> None]

EnginePreferences ==
    {None,
     Some([sweetness_preference |-> 6, bitterness_preference |-> 4, sugar_limit |-> None,
           caffeine_limit |-> Some(200), calorie_limit |-> Some(400),
           preferred_price_tier |-> "$$"]),
     Some([sweetness_preference |-> 2, bitterness_preference |-> 7, sugar_limit |-> Some(10),
           caffeine_limit |-> Some(0), calorie_limit |-> None,
           preferred_price_tier |-> "$"])}

\* The rows of users 1 and 2 vary (user 2's over two drinks); user 3's is fixed
VaryingRows(u) ==
    {row \in [EngineDrinkIds -> RowChoices] :
        /\ row[104] = None
        /\ u = 2 => row[103] = None}

Snapshots ==
    [interactions :
        {[u \in EngineUsers |-> CASE u = 1 -> r1 [] u = 2 -> r2 [] OTHER -> FixedRow] :
            r1 \in VaryingRows(1), r2 \in VaryingRows(2)},
     preference : EnginePreferences,
     K : {1, DefaultK},
     ageVerified : BOOLEAN]

NoResult == [kind |-> "none"]

\* recommend(user, candidateDrinks, options): a session serves one request
Recommend(u, mode, limitParam) ==
    /\ engOut = NoResult
    /\ engOut' = [kind |-> "recommend", user |-> u, mode |-> mode, limit |-> limitParam,
                  list |-> recommend(snapshot, u, mode, limitParam)]
    /\ UNCHANGED <<userInteractions, dpVars, resp, pcVars, snapshot, uiVars>>

\* similarity(build(a), build(b))
Similarity(a, b) ==
    /\ engOut = NoResult
    /\ engOut' = [kind |-> "similarity", a |-> a, b |-> b,
                  score |-> similarity(build(DrinkById(a)), build(DrinkById(b)))]
    /\ UNCHANGED <<userInteractions, dpVars, resp, pcVars, snapshot, uiVars>>

(***************************************************************************)
(* The specification of the drink page against the mock backend.           *)
(***************************************************************************)
InitBackend ==
    /\ userInteractions =
         [id \in RouteIds |->
            IF id = 101
            THEN Some([user_id |-> sampleUser.user_id, drink_id |-> 101,
                       times_consumed |-> 2, is_favorite |-> TRUE, rating |-> 9,
                       is_not_for_me |-> FALSE, viewed_at |-> "timestamp",
                       last_consumed |-> "timestamp"])
            ELSE None]
    /\ resp = NoResponse

InitDrinkPage ==
    /\ dpId = 0
    /\ dpDrink = None
    /\ dpInteraction = None
    /\ dpSimilar = <<>>
    /\ dpLoading = TRUE
    /\ dpErr = FALSE
    /\ putResponses = {}

InitPreferenceComparison ==
    /\ pcPreferences = None
    /\ pcLoading = TRUE
    /\ pcError = FALSE

InitEngine ==
    /\ snapshot = [interactions |-> [u \in EngineUsers |-> FixedRow], preference |-> None,
                   K |-> DefaultK, ageVerified |-> FALSE]
    /\ engOut = NoResult

\* The session before the application is opened, nothing stored
InitAuth ==
    /\ rejected = ""
    /\ user = None
    /\ authPending = "none"
    /\ storedUser = None
    /\ authHeader = None
    /\ mounted = FALSE
    /\ location = "/"
    /\ now = 0
    /\ backendPf = FALSE
    /\ tqStatus = "idle"
    /\ tqUser = None
    /\ lastRequest = NoRequest

\* RegisterPage as it mounts
InitRegister ==
    /\ regForm = [username |-> <<>>, email |-> <<>>, password |-> <<>>,
                  confirmpassword |-> <<>>, date_of_birth |-> NoDate]
    /\ validationErrors = {}
    /\ regError = ""
    /\ showQuiz = FALSE
    /\ regPayload = None

\* The login page with its modal closed
InitForgotPassword ==
    /\ showForgotPassword = FALSE
    /\ fpStep = 1
    /\ fpEmail = ""
    /\ fpCode = ""
    /\ fpNewPassword = ""
    /\ fpConfirmPassword = ""
    /\ fpLoading = FALSE
    /\ fpError = ""
    /\ fpSuccess = ""
    /\ fpAwait = "none"
    /\ fpPayload = None
    /\ fpVerified = None
    /\ fpTimer = FALSE

\* TasteQuizForm as it mounts
InitQuizForm ==
    /\ tqfQuestions = <<>>
    /\ tqfSelected = NoSelection
    /\ tqfLoading = TRUE
    /\ tqfSubmitting = FALSE
    /\ tqfError = ""
    /\ tqfPosted = NothingPosted

\* SearchPage before its first effect
InitSearchPage ==
    /\ searchParams = ""
    /\ spDrinks = <<>>
    /\ spPage = 1
    /\ spTotalPages = 1
    /\ spLoading = FALSE
    /\ spError = ""
    /\ spInFlight = {}
    /\ spIssued = 0
    /\ spLatest = [request |-> NoSearchRequest, outcome |-> "none"]

\* InteractionBasedRecommendations before its first effect
InitIbr ==
    /\ ibrUser = None
    /\ ibrRecommendations = <<>>
    /\ ibrLoading = TRUE
    /\ ibrError = ""
    /\ ibrInFlight = 0
    /\ ibrOutcome = "unmounted"
    /\ ibrEscaped = FALSE

\* AuthContextProvider's and LoginPage's useState
InitLoading ==
    /\ authLoading = FALSE
    /\ authError = None
    /\ loginError = ""
    /\ reloadPending = FALSE

InitMore ==
    /\ InitLoading
    /\ InitQuizForm
    /\ InitSearchPage
    /\ InitIbr

InitUi ==
    /\ InitAuth
    /\ InitRegister
    /\ InitForgotPassword
    /\ InitMore

Init ==
    /\ InitBackend
    /\ InitDrinkPage
    /\ InitPreferenceComparison
    /\ InitEngine
    /\ InitUi
    /\ pcUser = Some(sampleUser)
    /\ pcDrink = [sweetness_level |-> 6, caffeine_content |-> 180, price_tier |-> "$$"]

\* The recommendation endpoints, next to a visit of the drink pages that marks
\* drinks as favorite or as not for me (every control of the page: SpecPage)
Next ==
    \/ \E id \in RouteIds : DrinkPageOpen(id)
    \/ DrinkPageLoaded
    \/ ClickFavorite
    \/ ClickNotForMe
    \/ \E r \in putResponses : PutResponse(r)
    \/ \E id \in RouteIds, l \in LimitParams : RequestRecommendationsDrinks(id, l)
    \/ \E id \in RouteIds : RequestRecommendationsSimilar(id)
    \/ \E l \in LimitParams, t \in RecommendationTypes : RequestRecommendationsUsers(l, t)

Spec == Init /\ [][Next]_vars

(***************************************************************************)
(* The specification of the drink page with all its controls, its PUT      *)
(* requests answered asynchronously.                                       *)
(***************************************************************************)
NextPage ==
    \/ \E id \in RouteIds : DrinkPageOpen(id)
    \/ DrinkPageLoaded
    \/ ClickFavorite
    \/ ClickMadeThis
    \/ \E v \in RatingInputs : ChangeRating(v)
    \/ ClickNotForMe
    \/ \E r \in putResponses : PutResponse(r)

SpecPage == Init /\ [][NextPage]_vars

(***************************************************************************)
(* The specification of the interaction store: clients of GET and PUT      *)
(* /user-drinks/:id.                                                       *)
(***************************************************************************)
NextStore ==
    \/ \E id \in RouteIds : RequestGetUserDrink(id)
    \/ \E id \in RouteIds, patch \in PutPatches : RequestPutUserDrink(id, patch)

SpecStore == Init /\ [][NextStore]_vars

(***************************************************************************)
(* The specification of the session: opening the application with or       *)
(* without a stored user, logging in and out, the routes, the taste quiz.  *)
(***************************************************************************)
InitApp ==
    /\ InitBackend
    /\ InitDrinkPage
    /\ InitPreferenceComparison
    /\ InitEngine
    /\ pcUser = Some(sampleUser)
    /\ pcDrink = [sweetness_level |-> 6, caffeine_content |-> 180, price_tier |-> "$$"]
    /\ rejected = ""
    /\ user = None
    /\ authPending = "none"
    /\ storedUser \in {None, Corrupt} \cup {Some(u) : u \in UserResponses}
    /\ authHeader = None
    /\ mounted = FALSE
    /\ location \in Paths
    /\ now = 0
    /\ backendPf = (storedUser # None /\ storedUser[1].preference_finished)
    /\ tqStatus = "idle"
    /\ tqUser = None
    /\ lastRequest = NoRequest
    /\ InitRegister
    /\ InitForgotPassword
    /\ InitMore

NextApp ==
    \/ AppMount
    \/ Tick
    \/ \E path \in Paths : GoTo(path)
    \/ Redirect
    \/ LoginSubmit
    \/ \E data \in UserResponses : LoginOk(data)
    \/ \E status \in LoginFailureStatuses : LoginFailed(status)
    \/ Reload
    \/ LogoutStart
    \/ LogoutDone
    \/ PageRequest
    \/ ResponseUnauthorized
    \/ QuizCompleted
    \/ PutMeOk
    \/ \E unauthorized \in BOOLEAN : PutMeFailed(unauthorized)
    \/ \E token \in {None} \cup {Some(t) : t \in Tokens} : FetchMeOk(token)
    \/ \E unauthorized \in BOOLEAN : FetchMeFailed(unauthorized)
    \/ TryAgain

SpecApp == InitApp /\ [][NextApp]_vars

(***************************************************************************)
(* The specification of the registration page: the form is filled in and   *)
(* submitted, the backend accepts or refuses, the registered user is sent  *)
(* on by the routes.                                                       *)
(***************************************************************************)
InitRegisterPage ==
    /\ InitBackend
    /\ InitDrinkPage
    /\ InitPreferenceComparison
    /\ InitEngine
    /\ pcUser = Some(sampleUser)
    /\ pcDrink = [sweetness_level |-> 6, caffeine_content |-> 180, price_tier |-> "$$"]
    /\ InitAuth
    /\ InitRegister
    /\ InitForgotPassword
    /\ InitMore

NextRegister ==
    \/ AppMount
    \/ RegisterPageOpen
    \/ \E name \in {"username", "email", "password", "confirmpassword", "date_of_birth"} :
          \E value \in FieldValues(name) : HandleChange(name, value)
    \/ RegisterSubmit
    \/ \E data \in UserResponses : RegisterOk(data)
    \/ RegisterFailed
    \/ Redirect

SpecRegister == InitRegisterPage /\ [][NextRegister]_vars

(***************************************************************************)
(* The specification of the forgot-password modal on the login page.       *)
(***************************************************************************)
InitForgotPasswordModal ==
    /\ InitBackend
    /\ InitDrinkPage
    /\ InitPreferenceComparison
    /\ InitEngine
    /\ pcUser = Some(sampleUser)
    /\ pcDrink = [sweetness_level |-> 6, caffeine_content |-> 180, price_tier |-> "$$"]
    /\ InitAuth
    /\ InitRegister
    /\ InitForgotPassword
    /\ InitMore

NextForgotPassword ==
    \/ AppMount
    \/ Redirect
    \/ ForgotPasswordOpen
    \/ ForgotPasswordClose
    \/ ForgotPasswordTimer
    \/ \E value \in FpEmails \cup {""} : SetEmail(value)
    \/ \E value \in FpCodes : SetResetField("verificationCode", value)
    \/ \E name \in {"newPassword", "confirmPassword"} :
          \E value \in FpPasswords : SetResetField(name, value)
    \/ HandleRequestReset
    \/ RequestResetOk
    \/ RequestResetFailed
    \/ HandlePasswordReset
    \/ PasswordResetOk
    \/ PasswordResetFailed
    \/ BackToEmailEntry

SpecForgotPassword == InitForgotPasswordModal /\ [][NextForgotPassword]_vars

(***************************************************************************)
(* The specification of the taste quiz form.                               *)
(***************************************************************************)
InitQuiz ==
    /\ InitBackend
    /\ InitDrinkPage
    /\ InitPreferenceComparison
    /\ InitEngine
    /\ pcUser = Some(sampleUser)
    /\ pcDrink = [sweetness_level |-> 6, caffeine_content |-> 180, price_tier |-> "$$"]
    /\ InitUi

NextQuiz ==
    \/ \E qs \in QuestionLists : QuestionsLoaded(qs)
    \/ QuestionsFailed
    \/ \E i \in 1..2 : \E optionId \in OptionIds : HandleSelect(i, optionId)
    \/ HandleSubmit
    \/ QuizSubmitOk
    \/ QuizSubmitFailed

SpecQuiz == InitQuiz /\ [][NextQuiz]_vars

(***************************************************************************)
(* The specification of the search page.                                   *)
(***************************************************************************)
NextSearch ==
    \/ \E searchText \in SearchTexts : SearchParamsEffect(searchText)
    \/ \E newPage \in 1..2 : handlePageChange(newPage)
    \/ \E request \in SearchRequests : DrinksLoaded(request)
    \/ \E request \in SearchRequests : DrinksFailed(request)

SpecSearch == InitQuiz /\ [][NextSearch]_vars

(***************************************************************************)
(* The specification of InteractionBasedRecommendations.                   *)
(***************************************************************************)
NextIbr ==
    \/ \E u \in IbrUsers : FetchData(u)
    \/ \E similar \in SimilarDrinks : SimilarLoaded(similar)
    \/ \E status \in FailureStatuses : SimilarFailed(status)

SpecIbr == InitQuiz /\ [][NextIbr]_vars


(***************************************************************************)
(* The specification of the scores: PreferenceComparison over every drink  *)
(* and preference input, and the recommendation list of the mock backend.  *)
(***************************************************************************)
InitMatch ==
    /\ InitBackend
    /\ InitDrinkPage
    /\ InitPreferenceComparison
    /\ InitEngine
    /\ InitUi
    /\ pcUser \in {None, Some(sampleUser)}
    /\ pcDrink \in DrinkInputs

NextMatch ==
    \/ FetchPreferencesNoUser
    \/ \E r \in PreferenceResponses : FetchPreferencesOk(r)
    \/ FetchPreferencesFailed
    \/ \E l \in LimitParams, t \in RecommendationTypes : RequestRecommendationsUsers(l, t)

SpecMatch == InitMatch /\ [][NextMatch]_vars

(***************************************************************************)
(* The specification of the recommendation engine over its snapshots.      *)
(***************************************************************************)
InitEngineSession ==
    /\ InitBackend
    /\ InitDrinkPage
    /\ InitPreferenceComparison
    /\ InitUi
    /\ pcUser = Some(sampleUser)
    /\ pcDrink = [sweetness_level |-> 6, caffeine_content |-> 180, price_tier |-> "$$"]
    /\ snapshot \in Snapshots
    /\ engOut = NoResult

NextEngine ==
    \/ \E u \in EngineUsers, m \in RecommendationTypes, l \in LimitParams : Recommend(u, m, l)
    \/ \E a, b \in EngineDrinkIds : Similarity(a, b)

SpecEngine == InitEngineSession /\ [][NextEngine]_vars

(***************************************************************************)
(* Properties of the drink page and the mock backend (Spec).               *)
(***************************************************************************)
\* The drink-to-drink responses: GET /recommendations/drinks?drink_id=A and
\* GET /recommendations/similar/A
IsDrinkToDrink(r) == r.endpoint \in {"recommendations/drinks", "recommendations/similar"}

\* C1: the similar-drinks list returned for a drink-to-drink request on drink A
\* (by either endpoint, and as the drink page of A shows it) never contains A.
C1_NoSelfInSimilar ==
    /\ IsDrinkToDrink(resp) => resp.drink_id \notin DrinkIdsOf(resp.body.similar_drinks)
    /\ (~dpLoading /\ ~dpErr) => dpId \notin DrinkIdsOf(dpSimilar)

\* The drink has a stored interaction record that marks it "not for me"
NotForMe(ui, d) == d \in DOMAIN ui /\ ui[d] # None /\ ui[d][1].is_not_for_me

\* C2: a user-recommendation response (GET /recommendations/users) holds no
\* drink whose stored interaction record has is_not_for_me = true at the time
\* of the request.
C2_NotForMeExcluded ==
    [][(resp' # resp /\ resp'.endpoint = "recommendations/users")
         => \A i \in DOMAIN resp'.body.recommendations :
               ~NotForMe(userInteractions,
                         resp'.body.recommendations[i].drink.drink_id)]_vars

\* The number of entries of a recommendation response
EntryCount(r) ==
    IF r.endpoint = "recommendations/users" THEN Len(r.body.recommendations)
    ELSE Len(r.body.similar_drinks)

\* The catalog drinks eligible for a request: not marked "not for me" and, for
\* a drink-to-drink request, not the source drink
Eligible(ui, r) ==
    {d \in DrinkIdsOf(sampleDrinks) :
        /\ ~NotForMe(ui, d)
        /\ IsDrinkToDrink(r) => d # r.drink_id}

\* C12: a recommendation request returns at most limit entries, limit being
\* the caller's value and 10 when the caller supplies none, and fewer than
\* limit only when fewer eligible candidates exist.
C12_AtMostLimit ==
    [][(resp' # resp /\ resp'.endpoint \in {"recommendations/drinks", "recommendations/users"})
         => LET limit == LimitOf(resp'.limit, 10)
            IN  /\ EntryCount(resp') <= limit
                /\ EntryCount(resp') < limit
                     => Cardinality(Eligible(userInteractions, resp')) < limit]_vars

(***************************************************************************)
(* Properties of the drink page (SpecPage).                                *)
(***************************************************************************)
\* The stored times_consumed of a drink, 0 while no record is stored
StoredConsumed(ui, id) == IF ui[id] = None THEN 0 ELSE ui[id][1].times_consumed

\* C13: for every drink, across every interleaving of the drink page's
\* interaction updates and their responses, the stored times_consumed is never
\* negative and never decreases.
C13_ConsumedMonotone ==
    [][\A id \in RouteIds :
          /\ StoredConsumed(userInteractions', id) >= 0
          /\ StoredConsumed(userInteractions', id) >= StoredConsumed(userInteractions, id)]_vars

\* C14: after any sequence of the drink page's interaction updates, no stored
\* interaction record has both is_favorite and is_not_for_me true.
C14_FavoriteExcludesNotForMe ==
    \A id \in RouteIds :
        userInteractions[id] # None
          => ~(userInteractions[id][1].is_favorite /\ userInteractions[id][1].is_not_for_me)

(***************************************************************************)
(* Properties of the interaction store (SpecStore).                        *)
(***************************************************************************)
\* The values the claim gives a record created by a first PUT
FirstPutValues ==
    [times_consumed |-> 0, is_favorite |-> FALSE, rating |-> 0, is_not_for_me |-> FALSE]

\* C15: a record comes to exist only by a PUT for its drink, and until then
\* GET returns none; the first PUT creates it with times_consumed 0,
\* is_favorite false, rating 0, is_not_for_me false overlaid by the patch;
\* every PUT changes only the patched fields and last_consumed and leaves the
\* records of the other drinks unchanged; GET returns exactly the stored
\* record; no operation deletes a record.
C15_LazyCreationAndFrame ==
    [][/\ \A id \in RouteIds :
             /\ userInteractions[id] # None => userInteractions'[id] # None
             /\ userInteractions'[id] # userInteractions[id]
                  => resp'.endpoint = "PUT user-drinks" /\ resp'.drink_id = id
       /\ (resp' # resp /\ resp'.endpoint = "PUT user-drinks")
             => LET id == resp'.drink_id
                    new == userInteractions'[id]
                IN  /\ new # None
                    /\ resp'.body = new
                    /\ \A f \in DOMAIN resp'.patch : new[1][f] = resp'.patch[f]
                    /\ userInteractions[id] = None
                         => \A f \in DOMAIN FirstPutValues \ DOMAIN resp'.patch :
                               new[1][f] = FirstPutValues[f]
                    /\ userInteractions[id] # None
                         => /\ DOMAIN new[1] = DOMAIN userInteractions[id][1]
                            /\ \A f \in DOMAIN new[1] \ (DOMAIN resp'.patch \cup {"last_consumed"}) :
                                  new[1][f] = userInteractions[id][1][f]
       /\ (resp' # resp /\ resp'.endpoint = "GET user-drinks")
             => /\ resp'.body = userInteractions[resp'.drink_id]
                /\ userInteractions' = userInteractions]_vars

\* The record of drink 102, created by a first PUT {is_not_for_me: true} and
\* patched by a PUT {times_consumed: 3}, is read by a GET
C15_Witness ==
    /\ resp.endpoint = "GET user-drinks"
    /\ resp.drink_id = 102
    /\ resp.body # None
    /\ resp.body[1].is_not_for_me
    /\ ~resp.body[1].is_favorite
    /\ resp.body[1].rating = 0
    /\ resp.body[1].times_consumed = 3
    /\ userInteractions[999] = None

(***************************************************************************)
(* Properties of the session (SpecApp).                                    *)
(***************************************************************************)
\* C16: for a logged-in user the routes "/", "/login" and "/register" resolve
\* to the taste quiz when preference_finished is false and to the dashboard
\* when it is true, "/taste-quiz" resolves to the dashboard when it is true,
\* and the dashboard is never rendered for a user whose preference_finished is
\* false.
C16_RoutesByPreference ==
    /\ user # None
         => /\ \A path \in {"/", "/login", "/register"} :
                  Resolve(path, user) = IF user[1].preference_finished
                                        THEN "LandingPage" ELSE "TasteQuizPage"
            /\ user[1].preference_finished => Resolve("/taste-quiz", user) = "LandingPage"
    /\ RouteElement(location, user) = "LandingPage"
         => user # None /\ user[1].preference_finished

\* A user logged in with preference_finished false is on the taste quiz
C16_Witness ==
    /\ mounted
    /\ user # None
    /\ ~user[1].preference_finished
    /\ lastRequest.endpoint = "POST /auth/login"
    /\ RouteElement(location, user) = "TasteQuizPage"

\* C17: when handleQuizCompleted finishes after its PUT /auth/me succeeded, the
\* user (in AuthContext and in storage) has preference_finished = true and the
\* route it navigated to resolves to the dashboard; when the PUT fails, no
\* redirect to "/" is issued.
C17_QuizCompletionReachesDashboard ==
    [][/\ (tqStatus # "done" /\ tqStatus' = "done")
             => /\ user' # None
                /\ user'[1].preference_finished
                /\ storedUser' = user'
                /\ Resolve(location', user') = "LandingPage"
       /\ (tqStatus = "put" /\ tqStatus' \in {"failed", "idle"})
             => location' \in {location, "/login"}]_vars

C21_LogoutClears ==
    [][(authPending = "logout" /\ authPending' # "logout" /\ mounted')
         => (user' = None /\ storedUser' = None /\ authHeader' = None)]_vars

\* A logout has completed for a user who had logged in with a token
C21_Witness ==
    /\ mounted
    /\ lastRequest.endpoint = "POST /auth/logout"
    /\ lastRequest.auth # None
    /\ authPending = "none"
    /\ user = None
    /\ location # "/login"

\* C22: a cleared session (no user, nothing stored, no default header) stays
\* cleared until a loginUser or registerUser succeeds: no completion of a
\* fetchMe started before the logout restores any of the three.
C22_ClearedUntilLogin ==
    [][(/\ mounted
        /\ user = None /\ storedUser = None /\ authHeader = None
        /\ ~(authPending \in {"login", "register"} /\ authPending' = "none"))
         => (user' = None /\ storedUser' = None /\ authHeader' = None)]_vars

\* C25: while the current user is null no protected page is rendered: the
\* element at the current location is none of them, and every path but /login
\* and /register, unknown paths included, resolves to the login page.
C25_NoProtectedPageWithoutUser ==
    user = None
      => /\ RouteElement(location, user) \notin
               {"LandingPage", "TasteQuizPage", "SearchPage", "DrinkPage", "AccountPage"}
         /\ \A path \in Paths \ {"/login", "/register"} : Resolve(path, user) = "LoginPage"

\* Logged out while on the account page
C25_Witness ==
    /\ mounted
    /\ user = None
    /\ lastRequest.endpoint = "POST /auth/logout"
    /\ location = "/account"
    /\ RouteElement(location, user) = "/login"

\* C26: for every path and every user (null, preference_finished false or
\* true) the chain of <Navigate> redirects ends at a page after at most two
\* redirects: there is no redirect cycle.
C26_RedirectsTerminate ==
    \A path \in Paths : ResolveIn(path, user, 2) \notin Paths

\* After the quiz the redirect from "/" is over: the dashboard is rendered
C26_Witness ==
    /\ mounted
    /\ user # None
    /\ user[1].preference_finished
    /\ tqStatus = "done"
    /\ location = "/"
    /\ Resolve("/taste-quiz", user) = "LandingPage"

\* The stored session's access_token is expired: no three-part JWT with a
\* decodable payload, no exp in it, or an exp at or before the current time
StoredExpired ==
    /\ HasToken(storedUser)
    /\ LET token == storedUser[1].access_token[1]
       IN  \/ TokenParts(token) # 3
           \/ decodeJWT(token) = None
           \/ decodeJWT(token)[1].exp = None
           \/ decodeJWT(token)[1].exp[1] <= now

\* C23: no request is sent while localStorage holds a session whose
\* access_token is expired; the interceptor rejects a request only then, and
\* the rejection removes the stored session, deletes the default Authorization
\* header and sends the browser to /login.
C23_NoRequestWithExpiredToken ==
    [][/\ lastRequest' # lastRequest => ~StoredExpired
       /\ (rejected' # "" /\ rejected' # rejected)
             => /\ StoredExpired
                /\ lastRequest' = lastRequest
                /\ storedUser' = None
                /\ authHeader' = None
                /\ location' = "/login"]_vars

\* A request went out with tokA; once tokA's exp was reached the next one was
\* rejected
C23_Witness ==
    /\ rejected = "GET /auth/statistics"
    /\ lastRequest.endpoint = "GET /auth/statistics"
    /\ lastRequest.auth = Some("tokA")
    /\ now = 1
    /\ storedUser = None
    /\ location = "/login"

\* C24: the provider's mount makes the stored session the current user only if
\* the stored value parses and its access_token, when there is one, is not
\* expired; a value that does not parse, or an expired token, leaves the user
\* null and removes drinkwise_user from localStorage.
C24_MountLoadsValidSession ==
    [][(~mounted /\ mounted')
         => /\ user' # None
                  => /\ storedUser # None
                     /\ Len(storedUser) = 1
                     /\ user' = storedUser
                     /\ ~StoredExpired
            /\ (storedUser # None /\ (Len(storedUser) # 1 \/ StoredExpired))
                  => (user' = None /\ storedUser' = None)]_vars

\* A stored session with a token has become the user, no request made yet
C24_Witness ==
    /\ mounted
    /\ HasToken(user)
    /\ storedUser = user
    /\ authHeader = user[1].access_token
    /\ lastRequest = NoRequest
    /\ rejected = ""

\* C30: authLoading is true exactly while a login or registration request is
\* in flight; when the request succeeds the returned user is the current
\* user and the stored one and authError is null; when it fails the current
\* user and the stored session are as they were, authError is a non-empty
\* message and the page that called has the error.
C30_LoadingAndOutcome ==
    [][LET inFlight == authPending \in {"login", "register"}
           completes == inFlight /\ authPending' = "none"
       IN  /\ authLoading' <=> authPending' \in {"login", "register"}
           /\ (completes /\ user' # None /\ authError' = None)
                 => /\ storedUser' = user'
                    /\ ~authLoading'
           /\ (completes /\ authError' # None)
                 => /\ user' = user
                    /\ storedUser' = storedUser
                    /\ authError'[1] # ""
                    /\ ~authLoading'
                    /\ authPending = "login" => loginError' # ""
                    /\ authPending = "register" => regError' # ""]_vars

(***************************************************************************)
(* Properties of the registration page (SpecRegister).                     *)
(***************************************************************************)
\* An address with one "@", no white space, something before the "@" and,
\* after it, a "." with something on both sides
ValidEmail(e) ==
    LET ats == {i \in 1..Len(e) : e[i] = "@"}
    IN  /\ Cardinality(ats) = 1
        /\ ~HasCharIn(e, Whitespace)
        /\ \A a \in ats : a > 1 /\ \E j \in (a + 2)..(Len(e) - 1) : e[j] = "."

\* C19: POST /auth/register is issued only for a form with a username of 3 to
\* 50 characters, a syntactically valid email, a password of at least 8
\* characters and a confirmation equal to the password, and carries that form's
\* fields; a submit that fails validation sends no request and does not show
\* the quiz step.
C19_RegisterOnlyValidated ==
    [][/\ (lastRequest' # lastRequest /\ lastRequest'.endpoint = "POST /auth/register")
             => /\ Len(regForm.username) >= 3
                /\ Len(regForm.username) <= 50
                /\ ValidEmail(regForm.email)
                /\ Len(regForm.password) >= 8
                /\ regForm.confirmpassword = regForm.password
                /\ regPayload' # None
                /\ regPayload'[1].username = regForm.username
                /\ regPayload'[1].email = regForm.email
                /\ regPayload'[1].password = regForm.password
       /\ (validationErrors' # {} /\ validationErrors' # validationErrors)
             => /\ lastRequest' = lastRequest
                /\ regPayload' = regPayload
                /\ ~showQuiz']_vars

\* A request in flight for a 50-character username, after an earlier submit
\* was refused
C19_Witness ==
    /\ lastRequest.endpoint = "POST /auth/register"
    /\ regPayload # None
    /\ Len(regPayload[1].username) = 50
    /\ Len(regPayload[1].password) = 8
    /\ authPending = "register"

(***************************************************************************)
(* Properties of the forgot-password modal (SpecForgotPassword).           *)
(***************************************************************************)
\* C20: the modal is at step 2 only after a POST /auth/request-password-reset
\* succeeded for the email it holds; POST /auth/forgot-password is issued only
\* from step 2, with that email, and never when the new password and its
\* confirmation differ; a failed request leaves the step unchanged.
C20_ResetOnlyAfterRequest ==
    [][/\ (showForgotPassword' /\ fpStep' = 2) => fpVerified' = Some(fpEmail')
       /\ (lastRequest' # lastRequest /\ lastRequest'.endpoint = "POST /auth/forgot-password")
             => /\ fpStep = 2
                /\ fpVerified = Some(fpPayload'[1].email)
                /\ fpPayload'[1].email = fpEmail
                /\ fpNewPassword = fpConfirmPassword
                /\ fpPayload'[1].new_password = fpPayload'[1].confirm_password
       /\ (showForgotPassword /\ fpAwait # "none" /\ fpAwait' = "none" /\ fpError' # "")
             => fpStep' = fpStep]_vars

\* A reset in flight for the email whose reset request succeeded
C20_Witness ==
    /\ showForgotPassword
    /\ fpStep = 2
    /\ fpAwait = "reset"
    /\ lastRequest.endpoint = "POST /auth/forgot-password"
    /\ fpPayload[1].email = "b@x.io"
    /\ fpVerified = Some("b@x.io")
    /\ fpError = ""

(***************************************************************************)
(* Properties of the taste quiz form (SpecQuiz).                           *)
(***************************************************************************)
\* C27: /quiz/submit is posted only for a form with at least one question and
\* a selected option for every question, with one answer per question
\* carrying the selected option_id; the error "Please answer all questions
\* before submitting." is set only when some question has no selected option,
\* whatever the integer option_ids are.
C27_SubmitIffAllAnswered ==
    [][/\ tqfPosted' # tqfPosted
             => /\ Len(tqfQuestions) >= 1
                /\ \A i \in 1..Len(tqfQuestions) :
                      tqfSelected[tqfQuestions[i].question_id] # None
                /\ Len(tqfPosted'.answers) = Len(tqfQuestions)
                /\ \A i \in 1..Len(tqfQuestions) :
                      /\ tqfPosted'.answers[i].question_id = tqfQuestions[i].question_id
                      /\ tqfPosted'.answers[i].option_id =
                            tqfSelected[tqfQuestions[i].question_id]
       /\ (tqfError' = AnswerAllMessage /\ tqfError # AnswerAllMessage)
             => \E i \in 1..Len(tqfQuestions) :
                   tqfSelected[tqfQuestions[i].question_id] = None]_vars

(***************************************************************************)
(* Properties of the search page (SpecSearch).                             *)
(***************************************************************************)
\* C28: once every /catalog/drinks request has been answered, and the most
\* recently issued one was answered with a page of drinks, the drinks, page
\* and total pages on the screen are those of that request, in whatever order
\* the answers arrived.
C28_LatestRequestWins ==
    (spInFlight = {} /\ spLatest.outcome = "ok")
        => LET data == CatalogResponse(spLatest.request)
           IN  /\ spDrinks = data.drinks
               /\ spPage = data.page
               /\ spTotalPages = data.total_pages

(***************************************************************************)
(* Properties of InteractionBasedRecommendations (SpecIbr).                *)
(***************************************************************************)
\* C29: when no fetchData is pending, loading is false and no exception has
\* escaped; after a failure with a status other than 404 the error is
\* "Failed to load recommendations based on your interactions.", and after a
\* 404 there is no error.
C29_FailureEndsInErrorState ==
    ibrInFlight = 0 /\ ibrOutcome # "unmounted"
        => /\ ibrLoading = FALSE
           /\ ~ibrEscaped
           /\ ibrOutcome = "failed" => ibrError = IbrErrorMessage
           /\ ibrOutcome = "not found" => ibrError = ""

(***************************************************************************)
(* Properties of the scores (SpecMatch).                                   *)
(***************************************************************************)
InPercentRange(x) == 0 <= x /\ x <= 100

\* C3: every score returned with a recommendation lies in [0.0, 1.0] (here in
\* hundredths), and every preference match score lies in 0..100 percent.
C3_ScoresInUnitRange ==
    /\ resp.endpoint = "recommendations/users"
         => \A i \in DOMAIN resp.body.recommendations :
               InPercentRange(resp.body.recommendations[i].score)
    /\ pcView = "scores"
         => /\ InPercentRange(sweetnessMatch(pcDrink, pcPreferences[1]))
            /\ InPercentRange(caffeineMatch(pcDrink, pcPreferences[1]))
            /\ InPercentRange(priceMatch(pcDrink, pcPreferences[1]))
            /\ InPercentRange(overallMatch(pcDrink, pcPreferences[1]))

\* A recommendation list was returned and a drink scoring under 50% is compared
C3_Witness ==
    /\ resp.endpoint = "recommendations/users"
    /\ Len(resp.body.recommendations) = 3
    /\ pcView = "scores"
    /\ overallMatch(pcDrink, pcPreferences[1]) < 50

C5_ColdStart ==
    /\ (pcUser # None /\ ~pcLoading /\ ~pcError /\ pcPreferences = None)
         => pcView = "scores" /\ overallMatch(pcDrink, pcPreferences[1]) = 50
    /\ (resp.endpoint = "recommendations/users"
           /\ resp.recommendation_type = "collaborative")
         => resp.body.recommendations = <<>>

\* Scenario 1 of the spec's testable properties
ScenarioPreference ==
    [sweetness_preference |-> 6, caffeine_limit |-> Some(200), preferred_price_tier |-> "$$"]
DrinkX == [sweetness_level |-> 6, caffeine_content |-> 180, price_tier |-> "$$"]
DrinkY == [sweetness_level |-> 9, caffeine_content |-> 300, price_tier |-> "$$$"]

\* C9: under the preference {sweetness 6, caffeine limit 200, $$}, drink X
\* {6, 180, $$} scores 100%, no drink scores more than X, and drink Y
\* {9, 300, $$$} scores strictly less than X and is penalised on the sweetness
\* and on the caffeine dimension.
C9_ScenarioContentMatch ==
    (pcView = "scores" /\ pcPreferences[1] = ScenarioPreference)
      => /\ overallMatch(pcDrink, pcPreferences[1]) <= overallMatch(DrinkX, pcPreferences[1])
         /\ pcDrink = DrinkX => overallMatch(pcDrink, pcPreferences[1]) = 100
         /\ pcDrink = DrinkY
              => /\ overallMatch(pcDrink, pcPreferences[1])
                       < overallMatch(DrinkX, pcPreferences[1])
                 /\ sweetnessMatch(pcDrink, pcPreferences[1]) < 100
                 /\ caffeineMatch(pcDrink, pcPreferences[1]) < 100

\* Drink Y is compared under the scenario's preference
C9_Witness ==
    /\ pcView = "scores"
    /\ pcPreferences[1] = ScenarioPreference
    /\ pcDrink = DrinkY
    /\ overallMatch(pcDrink, pcPreferences[1]) = 40

\* C10 as the spec states it: with a caffeine limit L > 0 set, the caffeine
\* score is 1.0 for a drink value d <= L and max(0, 1 - (d - L)/L) above it
\* (both sides multiplied by 100 * L).
C10_LinearDecay ==
    (pcView = "scores" /\ ToNumber(pcPreferences[1].caffeine_limit) > 0)
      => LET L == ToNumber(pcPreferences[1].caffeine_limit)
             d == pcDrink.caffeine_content
         IN  caffeineMatch(pcDrink, pcPreferences[1]) * L
               = IF d <= L THEN 100 * L ELSE Max(0, 100 * L - (d - L) * 100)

\* C10 amended: with a caffeine limit set, the caffeine score is 100% for a
\* drink value at most the limit and 0 for every drink value above it.
C10_StepAtLimit ==
    (pcView = "scores" /\ pcPreferences[1].caffeine_limit # None)
      => LET L == pcPreferences[1].caffeine_limit[1]
             d == pcDrink.caffeine_content
         IN  /\ d <= L => caffeineMatch(pcDrink, pcPreferences[1]) = 100
             /\ d > L => caffeineMatch(pcDrink, pcPreferences[1]) = 0

\* A drink between the limit and twice the limit is compared
C10_Witness ==
    /\ pcView = "scores"
    /\ pcPreferences[1].caffeine_limit = Some(200)
    /\ pcDrink.caffeine_content = 300
    /\ caffeineMatch(pcDrink, pcPreferences[1]) = 0

\* The ordinal encoding of a price tier, in hundredths
PriceOrdinal(t) == CASE t = "$" -> 0 [] t = "$$" -> 50 [] OTHER -> 100

\* C11 as the spec states it: the sweetness score is 1 - |pref - drink| with
\* both normalized as (value - 1)/9 (both sides multiplied by 9), and the price
\* score is 1 - |pref - drink| over the encoding $ = 0.0, $$ = 0.5, $$$ = 1.0,
\* so that a larger tier distance gives a strictly lower price score.
C11_NormalizedDistance ==
    pcView = "scores"
      => LET p == pcPreferences[1]
         IN  /\ 9 * sweetnessMatch(pcDrink, p)
                   = 900 - 100 * Abs(pcDrink.sweetness_level - p.sweetness_preference)
             /\ priceMatch(pcDrink, p)
                   = 100 - Abs(PriceOrdinal(pcDrink.price_tier)
                               - PriceOrdinal(p.preferred_price_tier))

\* C11 amended: the sweetness score is 1 - |pref - drink| / 10 over the raw
\* 1..10 values, and the price score is 1.0 for the preferred tier and 0.5 for
\* every other tier, whatever the tier distance.
C11_RawScaleDistance ==
    pcView = "scores"
      => LET p == pcPreferences[1]
             dist == Abs(pcDrink.sweetness_level - p.sweetness_preference)
         IN  /\ 10 * sweetnessMatch(pcDrink, p) = 1000 - 100 * dist
             /\ pcDrink.price_tier = p.preferred_price_tier => priceMatch(pcDrink, p) = 100
             /\ pcDrink.price_tier # p.preferred_price_tier => priceMatch(pcDrink, p) = 50

\* The sweetest drink at the highest tier is compared under the least sweet
\* preference at the lowest tier
C11_Witness ==
    /\ pcView = "scores"
    /\ pcDrink.sweetness_level = 10
    /\ pcPreferences[1].sweetness_preference = 1
    /\ pcDrink.price_tier = "$$$"
    /\ pcPreferences[1].preferred_price_tier = "$"
    /\ sweetnessMatch(pcDrink, pcPreferences[1]) = 10
    /\ priceMatch(pcDrink, pcPreferences[1]) = 50

(***************************************************************************)
(* Properties of the recommendation engine (SpecEngine).                   *)
(***************************************************************************)
ZeroInteractions(u) == \A d \in EngineDrinkIds : snapshot.interactions[u][d] = None

\* C6: for a user with zero interactions, recommend in hybrid mode returns the
\* same ordered list (drinks and scores) as recommend in content mode over the
\* same candidates and snapshot.
C6_HybridFallsBackToContent ==
    (engOut.kind = "recommend" /\ engOut.mode = "hybrid" /\ ZeroInteractions(engOut.user))
      => engOut.list = recommend(snapshot, engOut.user, "content", engOut.limit)

\* A hybrid list of several drinks was returned to a user with zero
\* interactions who has a preference record, while another user has interactions
C6_Witness ==
    /\ engOut.kind = "recommend"
    /\ engOut.mode = "hybrid"
    /\ ZeroInteractions(engOut.user)
    /\ snapshot.preference # None
    /\ Len(engOut.list) >= 2
    /\ \E v \in EngineUsers \ {engOut.user} : ~ZeroInteractions(v)

\* C8: similarity(A, B) equals similarity(B, A) for all drinks A and B.
C8_SimilaritySymmetric ==
    engOut.kind = "similarity"
      => engOut.score = similarity(build(DrinkById(engOut.b)), build(DrinkById(engOut.a)))

\* The similarity of two different drinks was computed and is not zero
C8_Witness ==
    /\ engOut.kind = "similarity"
    /\ engOut.a # engOut.b
    /\ engOut.score > 0
    /\ engOut.score < 100

=============================================================================
